---- MODULE Spec2Model ----
(***************************************************************************)
(* A model of pictex: the style model (computed styles and inheritance),  *)
(* the layout engine's post-solve passes, size resolution, the text       *)
(* shaper's word wrap and the builders' copy-on-compose.                   *)
(*                                                                         *)
(* Layout lengths are integers in hundredths of a pixel, so that a        *)
(* percentage of a whole-pixel length is exact.                            *)
(***************************************************************************)
EXTENDS Integers, Sequences, FiniteSets, TLC

VARIABLES
    parent,          \* style tree: node -> its parent, 0 for the root
    rawStyle,        \* node -> property -> [value, was_set]   (Node._raw_style)
    styleCached,     \* the nodes whose computed_styles is cached
    computedStyles,  \* node -> property -> [value, was_set]   (the cached value)
    wText,           \* _wrap_line_to_width: the physical line, a sequence of characters
    wMaxWidth,       \* _wrap_line_to_width: max_width
    wFont,           \* the advances the fonts give the character no primary glyph exists for
    wIdx,            \* _wrap_line_to_width: number of tokens the loop has consumed
    wCurrentLine,    \* _wrap_line_to_width: current_line, a sequence of tokens
    wCurrentWidth,   \* _wrap_line_to_width: current_width
    wWrappedLines,   \* _wrap_line_to_width: wrapped_lines
    wPc,             \* _wrap_line_to_width: "loop" or "done"
    wResult,         \* _wrap_line_to_width: the list returned
    lParent,         \* layout tree: node -> its parent, 0 for the root   (Node._parent)
    lStyle,          \* layout tree: node -> its computed styles that layout reads
    node_map,        \* LayoutEngine._node_map: the nodes that have a solver node
    stStyle,         \* node -> the solver style built for it
    stLayout,        \* node -> the border box the solver computed for it
    layout_result,   \* node -> [linked, offset]                 (Node._layout_result)
    origin,          \* compute_layout: origin
    lPc,             \* compute_layout: the step reached
    forced_size,     \* node -> Node._forced_size, Indefinite for None
    resolved,        \* node -> axis -> what reading content_width/content_height gave
    bNext,           \* builders: the number of builder objects created
    bStyle,          \* builders: object -> its style
    bChildren,       \* builders: object -> Container._children, a sequence of objects
    bHandles,        \* builders: the objects the caller built and holds
    bCopyOf,         \* builders: object -> the object it was copied from, 0 for none
    eStyle,          \* element builder: Element._style, the fields the styling calls below set
    eResizeFactor,   \* element builder: Image._resize_factor, in hundredths
    eCall,           \* element builder: the last call made on it, [op, args, raised]
    tKind,           \* leaf node: "text" for a TextNode, "image" for an ImageNode
    tText,           \* text node: TextNode._text
    tTextWrapWidth,  \* text node: TextNode._text_wrap_width, NoMaxWidth for None
    tForcedWidth,    \* text node: Node._forced_size[0], NoMaxWidth for None
    tPositioned,     \* text node: whether computed_styles.position is set
    tCache,          \* leaf node: the values its cached properties and methods hold
    tCall,           \* leaf node: the last call made on it, [op, available, max_width, lines, size]
    tRender,         \* text node: _render_props, _absolute_position, _font_manager, _text_shaper
    rClusters,       \* _split_line_in_runs: line_text as the sequence of its grapheme clusters
    rIdx,            \* _split_line_in_runs: number of characters the loop has consumed
    rLineRuns,       \* _split_line_in_runs: line_runs
    rCurrentRunText, \* _split_line_in_runs: current_run_text
    rPc,             \* _split_line_in_runs: "loop" or "done", line_runs being the list returned
    child_widths,    \* row: margin_bounds.width() of each flexible child, 1/100 px
    child_min_widths, \* row: compute_min_width() of each flexible child, 1/100 px
    available_for_children, \* row: width left for the flexible children, 1/100 px
    bases,           \* row: child -> basis, 1/100 px
    mins,            \* row: child -> minimum width, whole pixels
    remaining,       \* row: the children not yet given a width
    remaining_available, \* row: width not yet given away, whole pixels
    constraints,     \* row: child -> the width constraints it was given, in order
    aPc              \* row: "start", "loop" or "done"

styleVars == <<parent, rawStyle, styleCached, computedStyles>>

wrapVars == <<wText, wMaxWidth, wFont, wIdx, wCurrentLine, wCurrentWidth, wWrappedLines, wPc, wResult>>

layoutVars == <<lParent, lStyle, node_map, stStyle, stLayout, layout_result, origin, lPc>>

resolverVars == <<forced_size, resolved>>

builderVars == <<bNext, bStyle, bChildren, bHandles, bCopyOf>>

elementVars == <<eStyle, eResizeFactor, eCall>>

textNodeVars == <<tKind, tText, tTextWrapWidth, tForcedWidth, tPositioned, tCache, tCall, tRender>>

runVars == <<rClusters, rIdx, rLineRuns, rCurrentRunText, rPc>>

rowVars == <<child_widths, child_min_widths, available_for_children, bases, mins, remaining,
            remaining_available, constraints, aPc>>

vars == <<parent, rawStyle, styleCached, computedStyles,
          wText, wMaxWidth, wFont, wIdx, wCurrentLine, wCurrentWidth, wWrappedLines, wPc, wResult,
          lParent, lStyle, node_map, stStyle, stLayout, layout_result, origin, lPc,
          forced_size, resolved, bNext, bStyle, bChildren, bHandles, bCopyOf,
          eStyle, eResizeFactor, eCall,
          tKind, tText, tTextWrapWidth, tForcedWidth, tPositioned, tCache, tCall, tRender,
          rClusters, rIdx, rLineRuns, rCurrentRunText, rPc,
          child_widths, child_min_widths, available_for_children, bases, mins, remaining,
          remaining_available, constraints, aPc>>

-----------------------------------------------------------------------------
(* Bounds *)

\* number of nodes of the style tree
NumStyleNodes == 3

\* longest physical line given to the word wrap
MaxTextLen == 4

\* largest max_width given to the word wrap
MaxWrapWidth == 5

\* largest advance of the glyph drawn for a character the primary font lacks
MaxAdvance == 2

\* largest intrinsic width and height, in pixels, of the centred element
MaxElementPx == 7

\* the interpreter's recursion limit: the depth at which a read of a size
\* ends in RecursionError
MaxRecursion == 8

\* largest number of builder objects
\* the most arguments a call of padding(), margin() or border_radius() gets
MaxArgs == 5

\* the longest text of the measured text node
MaxNodeTextLen == 3

MaxBuilders == 5

\* The longest line, in grapheme clusters, handed to _split_line_in_runs.
MaxRunClusters == 3

\* The most flexible children of a row whose width is shared out.
MaxRowChildren == 3

-----------------------------------------------------------------------------
(* Each component at rest, for the specifications that do not exercise it *)

WrapIdle ==
    /\ wText = <<>>
    /\ wMaxWidth = 0
    /\ wFont = [notdef |-> 1, fallback |-> 1]
    /\ wIdx = 0
    /\ wCurrentLine = <<>>
    /\ wCurrentWidth = 0
    /\ wWrappedLines = <<>>
    /\ wPc = "done"
    /\ wResult = <<>>

\* No tree has been handed to the layout engine.
LayoutIdle ==
    /\ lParent = <<>>
    /\ lStyle = <<>>
    /\ node_map = {}
    /\ stStyle = <<>>
    /\ stLayout = <<>>
    /\ layout_result = <<>>
    /\ origin = [x |-> 0, y |-> 0]
    /\ lPc = "idle"

\* No size has been read.
ResolverIdle ==
    /\ forced_size = <<>>
    /\ resolved = <<>>

\* No builder has been created.
BuilderIdle ==
    /\ bNext = 0
    /\ bStyle = <<>>
    /\ bChildren = <<>>
    /\ bHandles = {}
    /\ bCopyOf = <<>>

\* No element builder has been created.
ElementIdle ==
    /\ eStyle = <<>>
    /\ eResizeFactor = 0
    /\ eCall = <<>>

\* No text node has been built.
TextNodeIdle ==
    /\ tKind = "none"
    /\ tText = <<>>
    /\ tTextWrapWidth = 0
    /\ tForcedWidth = 0
    /\ tPositioned = FALSE
    /\ tCache = <<>>
    /\ tCall = <<>>
    /\ tRender = <<>>

\* _split_line_in_runs is not running.
RunsIdle ==
    /\ rClusters = <<>>
    /\ rIdx = 0
    /\ rLineRuns = <<>>
    /\ rCurrentRunText = <<>>
    /\ rPc = "done"

\* RowNode._set_width_constraint is not running.
RowIdle ==
    /\ child_widths = <<>>
    /\ child_min_widths = <<>>
    /\ available_for_children = 0
    /\ bases = <<>>
    /\ mins = <<>>
    /\ remaining = {}
    /\ remaining_available = 0
    /\ constraints = <<>>
    /\ aPc = "done"

-----------------------------------------------------------------------------
(* Style model *)

StyleNodes == 1..NumStyleNodes

\* The declared properties of the model: one inheritable, one not.
FieldNames == {"text_wrap", "padding"}

is_inheritable(field) == field = "text_wrap"

DefaultValue(field) == IF field = "text_wrap" THEN "normal" ELSE "0"

FieldValues(field) == IF field = "text_wrap" THEN {"normal", "nowrap"} ELSE {"0", "10"}

\* StyleProperty(default): the value, and whether a builder call set it.
StyleProperty(default) == [value |-> default, was_set |-> FALSE]

\* StyleProperty.set(value)
StylePropertySet(prop, v) == [value |-> v, was_set |-> TRUE]

\* Style(): every field at its declared default, nothing set.
Style == [f \in FieldNames |-> StyleProperty(DefaultValue(f))]

is_explicit(style, field) == style[field].was_set

\* The trees on StyleNodes: node 1 is the root, every other node's parent
\* has a smaller number.
Trees == {t \in [StyleNodes -> 0..NumStyleNodes] :
            /\ t[1] = 0
            /\ \A n \in StyleNodes \ {1} : t[n] \in 1..(n - 1)}

\* Node._compute_styles, given the parent's computed style (or none).
\* A mutant of it that copies the parent's value of every field the node did
\* not set, inheritable or not.
_compute_styles_all_fields(raw, hasParent, parentComputed) ==
    IF ~hasParent THEN raw
    ELSE [f \in FieldNames |->
            IF is_explicit(raw, f) THEN raw[f] ELSE parentComputed[f]]

_compute_styles(raw, hasParent, parentComputed) ==
    IF ~hasParent THEN raw
    ELSE [f \in FieldNames |->
            IF ~is_inheritable(f) THEN raw[f]
            ELSE IF is_explicit(raw, f) THEN raw[f]
            ELSE parentComputed[f]]

\* Node.computed_styles: the cached value if there is one, else
\* _compute_styles(), which reads the parent's computed_styles first.
RECURSIVE computed_styles(_)
computed_styles(n) ==
    IF n \in styleCached THEN computedStyles[n]
    ELSE IF parent[n] = 0 THEN _compute_styles(rawStyle[n], FALSE, Style)
    ELSE _compute_styles(rawStyle[n], TRUE, computed_styles(parent[n]))

RECURSIVE Ancestors(_)
Ancestors(n) == IF parent[n] = 0 THEN {} ELSE {parent[n]} \cup Ancestors(parent[n])

\* The style tree before any styling call.
StyleIdle ==
    /\ rawStyle = [n \in StyleNodes |-> Style]
    /\ styleCached = {}
    /\ computedStyles = [n \in StyleNodes |-> Style]

InitStyle ==
    /\ parent \in Trees
    /\ StyleIdle
    /\ WrapIdle
    /\ LayoutIdle
    /\ ResolverIdle
    /\ BuilderIdle
    /\ ElementIdle
    /\ TextNodeIdle
    /\ RunsIdle
    /\ RowIdle

\* A builder's styling call before the tree is rendered: text_wrap(v),
\* padding(v).
SetStyle(n, f, v) ==
    /\ styleCached = {}
    /\ rawStyle' = [rawStyle EXCEPT ![n][f] = StylePropertySet(@, v)]
    /\ UNCHANGED <<parent, styleCached, computedStyles>>
    /\ UNCHANGED <<wrapVars, layoutVars, resolverVars, builderVars, elementVars, textNodeVars, runVars, rowVars>>

\* A first read of n.computed_styles: computes and caches the style of n and
\* of every ancestor not cached yet.
ReadComputedStyles(n) ==
    /\ n \notin styleCached
    /\ LET fresh == ({n} \cup Ancestors(n)) \ styleCached
       IN /\ styleCached' = styleCached \cup fresh
          /\ computedStyles' = [m \in StyleNodes |->
                IF m \in fresh THEN computed_styles(m) ELSE computedStyles[m]]
    /\ UNCHANGED <<parent, rawStyle>>
    /\ UNCHANGED <<wrapVars, layoutVars, resolverVars, builderVars, elementVars, textNodeVars, runVars, rowVars>>

\* Node.clear() on the root: clear_cache() on every node.
ClearStyles ==
    /\ styleCached # {}
    /\ styleCached' = {}
    /\ computedStyles' = [n \in StyleNodes |-> Style]
    /\ UNCHANGED <<parent, rawStyle>>
    /\ UNCHANGED <<wrapVars, layoutVars, resolverVars, builderVars, elementVars, textNodeVars, runVars, rowVars>>

NextStyle ==
    \/ \E n \in StyleNodes, f \in FieldNames : \E v \in FieldValues(f) : SetStyle(n, f, v)
    \/ \E n \in StyleNodes : ReadComputedStyles(n)
    \/ ClearStyles

SpecStyle == InitStyle /\ [][NextStyle]_vars

-----------------------------------------------------------------------------
(* Text shaper *)

\* Characters: "a" and " " have a glyph in the primary font, "x" has one
\* only in the fallback font.
Alphabet == {"a", " ", "x"}

\* str.isspace / the regular expression class \s, on one character
IsSpace(ch) == ch = " " \/ ch = "\n"

\* Typeface.unicharToGlyph(ord(glyph)) != 0
_is_glyph_supported_for_typeface(glyph, typeface) ==
    IF typeface = "primary" THEN glyph \in {"a", " ", "\n"}
    ELSE IF typeface = "fallback" THEN glyph = "x"
    ELSE FALSE

\* FontManager.get_fallback_font_typefaces()
get_fallback_font_typefaces == <<"fallback">>

\* The advance a typeface gives one character; a character without a glyph
\* gets the typeface's .notdef glyph.
Advance(typeface, ch) ==
    IF typeface = "primary"
    THEN (IF ch = "a" THEN 2 ELSE IF IsSpace(ch) THEN 1 ELSE wFont.notdef)
    ELSE (IF ch = "x" THEN wFont.fallback ELSE 1)

\* skia.Font.measureText: the sum of the advances
RECURSIVE measureText(_, _)
measureText(typeface, s) ==
    IF s = <<>> THEN 0 ELSE Advance(typeface, Head(s)) + measureText(typeface, Tail(s))

\* length of the longest prefix of s whose characters are all whitespace, or
\* all not, as the first one
RunLength(s) ==
    CHOOSE k \in 1..Len(s) :
        /\ \A i \in 1..k : IsSpace(s[i]) = IsSpace(s[1])
        /\ k = Len(s) \/ IsSpace(s[k + 1]) # IsSpace(s[1])

\* re.findall(r'\S+|\s+', text)
RECURSIVE Tokenize(_)
Tokenize(s) ==
    IF s = <<>> THEN <<>>
    ELSE LET k == RunLength(s)
         IN <<SubSeq(s, 1, k)>> \o Tokenize(SubSeq(s, k + 1, Len(s)))

\* ''.join(tokens)
RECURSIVE Join(_)
Join(tokens) == IF tokens = <<>> THEN <<>> ELSE Head(tokens) \o Join(Tail(tokens))

\* str.strip()
RECURSIVE strip(_)
strip(s) ==
    IF s = <<>> THEN s
    ELSE IF IsSpace(s[1]) THEN strip(Tail(s))
    ELSE IF IsSpace(s[Len(s)]) THEN strip(SubSeq(s, 1, Len(s) - 1))
    ELSE s

\* wrapped_lines.append(''.join(current_line).strip())
\* A mutant of it that appends the joined line as it is.
FlushedLineUnstripped(current_line) == Join(current_line)

FlushedLine(current_line) == strip(Join(current_line))

\* Whether the loop body keeps the token on the current line.
TokenFits(token, current_width, max_width) ==
    current_width + measureText("primary", token) <= max_width

\* One iteration of the token loop of _wrap_line_to_width, on the loop's
\* locals st = [current_line, current_width, wrapped_lines].
LoopBody(st, token, max_width) ==
    LET token_width == measureText("primary", token)
    IN IF st.current_line = <<>>
       THEN [st EXCEPT !.current_line = <<token>>, !.current_width = token_width]
       ELSE IF TokenFits(token, st.current_width, max_width)
       THEN [st EXCEPT !.current_line = Append(@, token),
                       !.current_width = @ + token_width]
       ELSE [current_line |-> <<token>>,
             current_width |-> token_width,
             wrapped_lines |-> Append(st.wrapped_lines, FlushedLine(st.current_line))]

\* What _wrap_line_to_width returns once the loop has ended.
WrapReturnValue(st, text) ==
    LET wrapped_lines == IF st.current_line # <<>>
                         THEN Append(st.wrapped_lines, FlushedLine(st.current_line))
                         ELSE st.wrapped_lines
    IN IF Len(wrapped_lines) = 1 THEN <<text>>
       ELSE IF wrapped_lines # <<>> THEN wrapped_lines ELSE << <<>> >>

LoopState == [current_line |-> wCurrentLine, current_width |-> wCurrentWidth,
              wrapped_lines |-> wWrappedLines]

RECURSIVE RunLoop(_, _, _)
RunLoop(st, tokens, max_width) ==
    IF tokens = <<>> THEN st
    ELSE RunLoop(LoopBody(st, Head(tokens), max_width), Tail(tokens), max_width)

\* TextShaper._wrap_line_to_width as a function of its arguments
_wrap_line_to_width(text, max_width) ==
    IF Tokenize(text) = <<>> THEN << <<>> >>
    ELSE WrapReturnValue(
            RunLoop([current_line |-> <<>>, current_width |-> 0, wrapped_lines |-> <<>>],
                    Tokenize(text), max_width),
            text)

\* TextShaper._get_fallback_font_for_glyph: the first configured fallback
\* typeface with the glyph, else the primary font (no system typeface has a
\* glyph the configured ones lack).
_get_fallback_font_for_glyph(glyph) ==
    LET fallback_typefaces == get_fallback_font_typefaces
        found == {i \in 1..Len(fallback_typefaces) :
                    _is_glyph_supported_for_typeface(glyph, fallback_typefaces[i])}
    IN IF found # {}
       THEN fallback_typefaces[CHOOSE i \in found : \A j \in found : i <= j]
       ELSE "primary"

\* The loop body that, joining a character to the last run, keeps the
\* character only.
SplitRunsBodyReplacingLastRun(st, char) ==
    IF _is_glyph_supported_for_typeface(char, "primary")
    THEN [st EXCEPT !.current_run_text = Append(@, char)]
    ELSE LET line_runs == IF st.current_run_text # <<>>
                          THEN Append(st.line_runs, [text |-> st.current_run_text, font |-> "primary"])
                          ELSE st.line_runs
             fallback_font == _get_fallback_font_for_glyph(char)
             n == Len(line_runs)
         IN [current_run_text |-> <<>>,
             line_runs |->
                IF n > 0 /\ line_runs[n].font = fallback_font
                THEN [line_runs EXCEPT ![n] = [text |-> <<char>>, font |-> fallback_font]]
                ELSE Append(line_runs, [text |-> <<char>>, font |-> fallback_font])]

\* One iteration of "for char in line_text" of _split_line_in_runs, on the
\* locals st = [line_runs, current_run_text].
SplitRunsBody(st, char) ==
    IF _is_glyph_supported_for_typeface(char, "primary")
    THEN [st EXCEPT !.current_run_text = Append(@, char)]
    ELSE LET line_runs == IF st.current_run_text # <<>>
                          THEN Append(st.line_runs, [text |-> st.current_run_text, font |-> "primary"])
                          ELSE st.line_runs
             fallback_font == _get_fallback_font_for_glyph(char)
             n == Len(line_runs)
         IN [current_run_text |-> <<>>,
             line_runs |->
                IF n > 0 /\ line_runs[n].font = fallback_font
                THEN [line_runs EXCEPT ![n] = [text |-> Append(line_runs[n].text, char),
                                               font |-> fallback_font]]
                ELSE Append(line_runs, [text |-> <<char>>, font |-> fallback_font])]

RECURSIVE SplitRunsLoop(_, _)
SplitRunsLoop(st, line_text) ==
    IF line_text = <<>> THEN st
    ELSE SplitRunsLoop(SplitRunsBody(st, Head(line_text)), Tail(line_text))

\* TextShaper._split_line_in_runs
_split_line_in_runs(line_text) ==
    LET st == SplitRunsLoop([line_runs |-> <<>>, current_run_text |-> <<>>], line_text)
    IN IF st.current_run_text # <<>>
       THEN Append(st.line_runs, [text |-> st.current_run_text, font |-> "primary"])
       ELSE st.line_runs

RECURSIVE RunsWidth(_)
RunsWidth(runs) ==
    IF runs = <<>> THEN 0
    ELSE measureText(Head(runs).font, Head(runs).text) + RunsWidth(Tail(runs))

\* TextShaper._create_line: each run measured with its own font
_create_line(runs) == [runs |-> runs, width |-> RunsWidth(runs)]

\* TextShaper._create_empty_line
_create_empty_line == [runs |-> <<>>, width |-> 0]

\* max_width = None
NoMaxWidth == 0 - 1

\* str.split('\n')
RECURSIVE SplitLines(_)
SplitLines(text) ==
    IF \A i \in 1..Len(text) : text[i] # "\n" THEN <<text>>
    ELSE LET k == CHOOSE i \in 1..Len(text) :
                    text[i] = "\n" /\ \A j \in 1..(i - 1) : text[j] # "\n"
         IN <<SubSeq(text, 1, k - 1)>> \o SplitLines(SubSeq(text, k + 1, Len(text)))

\* The body of "for wrapped_line_text in wrapped_lines" of shape().
RECURSIVE ShapeWrappedLines(_)
ShapeWrappedLines(wrapped_lines) ==
    IF wrapped_lines = <<>> THEN <<>>
    ELSE <<IF Head(wrapped_lines) = <<>> THEN _create_empty_line
           ELSE _create_line(_split_line_in_runs(Head(wrapped_lines)))>>
         \o ShapeWrappedLines(Tail(wrapped_lines))

\* The body of "for line_text in text.split('\n')" of shape().
RECURSIVE ShapePhysicalLines(_, _)
ShapePhysicalLines(lines, max_width) ==
    IF lines = <<>> THEN <<>>
    ELSE (IF Head(lines) = <<>> THEN <<_create_empty_line>>
          ELSE IF max_width # NoMaxWidth
          THEN ShapeWrappedLines(_wrap_line_to_width(Head(lines), max_width))
          ELSE <<_create_line(_split_line_in_runs(Head(lines)))>>)
         \o ShapePhysicalLines(Tail(lines), max_width)

\* TextShaper.shape
shape(text, max_width) == ShapePhysicalLines(SplitLines(text), max_width)

\* The text of a shaped line: its runs' texts in order.
RECURSIVE LineText(_)
LineText(runs) == IF runs = <<>> THEN <<>> ELSE Head(runs).text \o LineText(Tail(runs))

\* The physical lines given to the wrap: shape() passes no empty line on.
PhysicalLines == UNION {[1..k -> Alphabet] : k \in 1..MaxTextLen}

FontTables == [notdef : 1..MaxAdvance, fallback : 1..MaxAdvance]

InitWrap ==
    /\ parent = [n \in StyleNodes |-> n - 1]
    /\ StyleIdle
    /\ wText \in PhysicalLines
    /\ wMaxWidth \in 0..MaxWrapWidth
    /\ wFont \in FontTables
    /\ wIdx = 0
    /\ wCurrentLine = <<>>
    /\ wCurrentWidth = 0
    /\ wWrappedLines = <<>>
    /\ wPc = "loop"
    /\ wResult = <<>>
    /\ LayoutIdle
    /\ ResolverIdle
    /\ BuilderIdle
    /\ ElementIdle
    /\ TextNodeIdle
    /\ RunsIdle
    /\ RowIdle

\* One iteration of "for token in tokens".
WrapToken ==
    /\ wPc = "loop"
    /\ wIdx < Len(Tokenize(wText))
    /\ LET st == LoopBody(LoopState, Tokenize(wText)[wIdx + 1], wMaxWidth)
       IN /\ wCurrentLine' = st.current_line
          /\ wCurrentWidth' = st.current_width
          /\ wWrappedLines' = st.wrapped_lines
    /\ wIdx' = wIdx + 1
    /\ UNCHANGED <<wText, wMaxWidth, wFont, wPc, wResult>>
    /\ UNCHANGED <<styleVars, layoutVars, resolverVars, builderVars, elementVars, textNodeVars, runVars, rowVars>>

\* The code after the loop: the last line is flushed and the list returned.
WrapReturn ==
    /\ wPc = "loop"
    /\ wIdx = Len(Tokenize(wText))
    /\ wResult' = WrapReturnValue(LoopState, wText)
    /\ wPc' = "done"
    /\ UNCHANGED <<wText, wMaxWidth, wFont, wIdx, wCurrentLine, wCurrentWidth, wWrappedLines>>
    /\ UNCHANGED <<styleVars, layoutVars, resolverVars, builderVars, elementVars, textNodeVars, runVars, rowVars>>

NextWrap == WrapToken \/ WrapReturn

SpecWrap == InitWrap /\ [][NextWrap]_vars

-----------------------------------------------------------------------------
(* Run segmentation: TextShaper._split_line_in_runs, step by step *)

\* The grapheme clusters of a line. The characters stand for what the fonts
\* have: "a" has a glyph in the primary font, "x" in the fallback font only,
\* "?" in no font. A cluster of two code points is a base with a mark or a
\* modifier the base's font lacks.
RunClusters == {<<"a">>, <<"x">>, <<"?">>, <<"a", "x">>, <<"x", "?">>}

RunLines == UNION {[1..k -> RunClusters] : k \in 1..MaxRunClusters}

\* The string of a sequence of clusters or of run texts
RECURSIVE Flatten(_)
Flatten(seqs) == IF seqs = <<>> THEN <<>> ELSE Head(seqs) \o Flatten(Tail(seqs))

\* line_text, the characters "for char in line_text" iterates over
line_text == Flatten(rClusters)

\* _split_line_in_runs(line_text) is entered: shape() calls it for the
\* non-empty lines only.
InitRuns ==
    /\ rClusters \in RunLines
    /\ rIdx = 0
    /\ rLineRuns = <<>>
    /\ rCurrentRunText = <<>>
    /\ rPc = "loop"
    /\ parent = [n \in StyleNodes |-> n - 1]
    /\ StyleIdle
    /\ WrapIdle
    /\ LayoutIdle
    /\ ResolverIdle
    /\ BuilderIdle
    /\ ElementIdle
    /\ TextNodeIdle
    /\ RowIdle

RunsFrame ==
    UNCHANGED <<styleVars, wrapVars, layoutVars, resolverVars, builderVars, elementVars, textNodeVars, rowVars>>

\* One iteration of "for char in line_text".
SplitRunsChar ==
    /\ rPc = "loop"
    /\ rIdx < Len(line_text)
    /\ LET st == SplitRunsBody([line_runs |-> rLineRuns, current_run_text |-> rCurrentRunText],
                               line_text[rIdx + 1])
       IN /\ rLineRuns' = st.line_runs
          /\ rCurrentRunText' = st.current_run_text
    /\ rIdx' = rIdx + 1
    /\ UNCHANGED <<rClusters, rPc>>
    /\ RunsFrame

\* The code after the loop: the last run is added and line_runs returned.
SplitRunsReturn ==
    /\ rPc = "loop"
    /\ rIdx = Len(line_text)
    /\ rLineRuns' = IF rCurrentRunText # <<>>
                    THEN Append(rLineRuns, [text |-> rCurrentRunText, font |-> "primary"])
                    ELSE rLineRuns
    /\ rPc' = "done"
    /\ UNCHANGED <<rClusters, rIdx, rCurrentRunText>>
    /\ RunsFrame

NextRuns == SplitRunsChar \/ SplitRunsReturn

SpecRuns == InitRuns /\ [][NextRuns]_vars

-----------------------------------------------------------------------------
(* Layout: the values of the layout styles *)

\* hundredths of a pixel in a pixel: the resolution the floats are kept at
PxUnits == 100

Px(n) == n * PxUnits

Axes == {"x", "y"}

Max(a, b) == IF a >= b THEN a ELSE b

Min(a, b) == IF a <= b THEN a ELSE b

\* An inset or translate value of a builder call: None, a number of pixels
\* or a string "N%".
NoValue == [kind |-> "none", v |-> 0]

Number(v) == [kind |-> "number", v |-> v]

PercentStr(pct) == [kind |-> "percent_str", v |-> pct]

\* SizeValue(mode, value); None when the size was never set.
NoSize == [mode |-> "none", value |-> 0]

SizeValue(mode, value) == [mode |-> mode, value |-> value]

\* Position(type, Inset(top, right, bottom, left)); type "none" when position
\* is None.
NoPosition == [type |-> "none", left |-> NoValue, top |-> NoValue,
               right |-> NoValue, bottom |-> NoValue]

\* Position(type, Inset(top=top, left=left))
Position(type, left, top) == [NoPosition EXCEPT !.type = type, !.left = left, !.top = top]

\* Transform(translate_x, translate_y); set is FALSE when transform is None.
NoTransform == [set |-> FALSE, translate_x |-> NoValue, translate_y |-> NoValue]

Transform(x, y) == [set |-> TRUE, translate_x |-> x, translate_y |-> y]

\* The computed styles layout reads, at their declared defaults.  margin,
\* border and padding are the same on the four sides; intrinsic is what
\* compute_intrinsic_width/height answer for a node without children.
DefaultLayoutStyle ==
    [margin |-> 0, border |-> 0, padding |-> 0,
     width |-> NoSize, height |-> NoSize,
     min_width |-> NoSize, min_height |-> NoSize,
     max_width |-> NoSize, max_height |-> NoSize,
     position |-> NoPosition, transform |-> NoTransform,
     background_image |-> [set |-> FALSE, x |-> 0, y |-> 0],
     intrinsic |-> [x |-> 0, y |-> 0]]

-----------------------------------------------------------------------------
(* Layout: StyleMapper *)

\* The solver's lengths.
AUTO == [kind |-> "auto", v |-> 0]

Points(v) == [kind |-> "points", v |-> v]

PCT(pct) == [kind |-> "percent", v |-> pct]

\* StyleMapper._map_single_size
_map_single_size(style, size_value, dimension) ==
    CASE size_value.mode = "none" -> AUTO
      [] size_value.mode \in {"auto", "fit-content"} -> AUTO
      [] size_value.mode = "absolute" -> Points(size_value.value)
      [] size_value.mode = "percent" -> PCT(size_value.value)
      [] size_value.mode = "fill-available" -> AUTO
      [] size_value.mode = "fit-background-image" ->
            IF style.background_image.set
            THEN Points(style.background_image[dimension])
            ELSE AUTO
      [] OTHER -> AUTO

\* StyleMapper._map_size
_map_size(style, width, height) ==
    [x |-> IF width.mode # "none" THEN _map_single_size(style, width, "x") ELSE AUTO,
     y |-> IF height.mode # "none" THEN _map_single_size(style, height, "y") ELSE AUTO]

\* StyleMapper._get_flex_grow
_get_flex_grow(width, height) ==
    IF width.mode = "fill-available" THEN 1
    ELSE IF height.mode = "fill-available" THEN 1
    ELSE 0

\* StyleMapper._map_inset_value
_map_inset_value(value) ==
    CASE value.kind = "none" -> AUTO
      [] value.kind = "number" -> Points(value.v)
      [] value.kind = "percent_str" -> PCT(value.v)
      [] OTHER -> AUTO

\* StyleMapper._map_position: the solver's position type, "none" when the
\* code leaves it None, and the insets.
_map_position(position) ==
    [position_type |-> CASE position.type = "absolute" -> "ABSOLUTE"
                         [] position.type = "relative" -> "RELATIVE"
                         [] OTHER -> "none",
     inset |-> [x |-> _map_inset_value(position.left),
                y |-> _map_inset_value(position.top)],
     inset_end |-> [x |-> _map_inset_value(position.right),
                    y |-> _map_inset_value(position.bottom)]]

\* The solver style of a node nothing was mapped for: the library's defaults.
StretchableStyle ==
    [padding |-> 0, margin |-> 0, border |-> 0,
     size |-> [x |-> AUTO, y |-> AUTO],
     min_size |-> [x |-> AUTO, y |-> AUTO],
     max_size |-> [x |-> AUTO, y |-> AUTO],
     flex_grow |-> 0,
     position |-> "RELATIVE",
     inset |-> [x |-> AUTO, y |-> AUTO],
     inset_end |-> [x |-> AUTO, y |-> AUTO],
     measure |-> [x |-> 0, y |-> 0]]

\* StyleMapper._create_base_style without the max_size constraint.
_create_base_style_no_max(style) ==
    LET mapped == IF style.position.type # "none"
                  THEN _map_position(style.position)
                  ELSE [position_type |-> "none", inset |-> [x |-> AUTO, y |-> AUTO],
                        inset_end |-> [x |-> AUTO, y |-> AUTO]]
    IN [StretchableStyle EXCEPT
          !.padding = style.padding,
          !.margin = style.margin,
          !.border = style.border,
          !.size = _map_size(style, style.width, style.height),
          !.min_size = IF style.min_width.mode # "none" \/ style.min_height.mode # "none"
                       THEN _map_size(style, style.min_width, style.min_height) ELSE @,
          !.flex_grow = _get_flex_grow(style.width, style.height),
          !.position = IF mapped.position_type # "none" THEN mapped.position_type ELSE @,
          !.inset = mapped.inset,
          !.inset_end = mapped.inset_end,
          !.measure = style.intrinsic]

\* StyleMapper._create_base_style, with the measure function of
\* LayoutEngine._create_measure_function attached.
_create_base_style(style) ==
    LET mapped == IF style.position.type # "none"
                  THEN _map_position(style.position)
                  ELSE [position_type |-> "none", inset |-> [x |-> AUTO, y |-> AUTO],
                        inset_end |-> [x |-> AUTO, y |-> AUTO]]
    IN [StretchableStyle EXCEPT
          !.padding = style.padding,
          !.margin = style.margin,
          !.border = style.border,
          !.size = _map_size(style, style.width, style.height),
          !.min_size = IF style.min_width.mode # "none" \/ style.min_height.mode # "none"
                       THEN _map_size(style, style.min_width, style.min_height) ELSE @,
          !.max_size = IF style.max_width.mode # "none" \/ style.max_height.mode # "none"
                       THEN _map_size(style, style.max_width, style.max_height) ELSE @,
          !.flex_grow = _get_flex_grow(style.width, style.height),
          !.position = IF mapped.position_type # "none" THEN mapped.position_type ELSE @,
          !.inset = mapped.inset,
          !.inset_end = mapped.inset_end,
          !.measure = style.intrinsic]

-----------------------------------------------------------------------------
(* Layout: the flexbox solver behind stretchable_root.compute_layout()      *)
(*                                                                          *)
(* Every container is a row with the declared defaults: no wrap, no gap,    *)
(* justify start, align start.  A solver tree t is [parent, style, present]:*)
(* the nodes in t.present, the others removed.  A size the style does not   *)
(* fix is Indefinite.  Children never overflow a container whose size is    *)
(* fixed, so nothing shrinks.                                               *)

Indefinite == 0 - 1

SolverChildren(t, n) == {c \in t.present : t.parent[c] = n}

InFlowChildren(t, n) == {c \in SolverChildren(t, n) : t.style[c].position # "ABSOLUTE"}

\* padding + border on both sides of an axis
Inner(st) == 2 * (st.padding + st.border)

\* A length against the size it is a percentage of; Indefinite when there is
\* none.
ResolveLength(len, basis) ==
    CASE len.kind = "points" -> len.v
      [] len.kind = "percent" -> IF basis = Indefinite THEN Indefinite ELSE (basis * len.v) \div 100
      [] OTHER -> Indefinite

RECURSIVE KnownSize(_, _, _)
RECURSIVE ParentKnownInner(_, _, _)

\* min(max) first, then max(min): the minimum wins over the maximum; a box is
\* never smaller than its padding and border.
Clamp(t, n, ax, v) ==
    LET basis == ParentKnownInner(t, n, ax)
        mx == ResolveLength(t.style[n].max_size[ax], basis)
        mn == ResolveLength(t.style[n].min_size[ax], basis)
        a == IF mx = Indefinite THEN v ELSE Min(v, mx)
        b == IF mn = Indefinite THEN a ELSE Max(a, mn)
    IN Max(b, Inner(t.style[n]))

\* The border-box size the style alone fixes for n on ax, or Indefinite.
KnownSize(t, n, ax) ==
    LET v == ResolveLength(t.style[n].size[ax], ParentKnownInner(t, n, ax))
    IN IF v = Indefinite THEN Indefinite ELSE Clamp(t, n, ax, v)

\* The content-box size the style fixes for the parent of n, or Indefinite.
ParentKnownInner(t, n, ax) ==
    IF t.parent[n] = 0 THEN Indefinite
    ELSE LET k == KnownSize(t, t.parent[n], ax)
         IN IF k = Indefinite THEN Indefinite ELSE k - Inner(t.style[t.parent[n]])

RECURSIVE HypotheticalSize(_, _, _)
RECURSIVE SumOuter(_, _)
RECURSIVE MaxOuter(_, _)

\* The sum of the hypothetical outer widths of the nodes of S.
SumOuter(t, S) ==
    IF S = {} THEN 0
    ELSE LET c == CHOOSE c \in S : TRUE
         IN HypotheticalSize(t, c, "x") + 2 * t.style[c].margin + SumOuter(t, S \ {c})

\* The largest outer height of the nodes of S.
MaxOuter(t, S) ==
    IF S = {} THEN 0
    ELSE LET c == CHOOSE c \in S : TRUE
         IN Max(HypotheticalSize(t, c, "y") + 2 * t.style[c].margin, MaxOuter(t, S \ {c}))

\* The content size of n: what its measure function answers when it has no
\* in-flow child, else its in-flow children side by side.
ContentSize(t, n, ax) ==
    IF InFlowChildren(t, n) = {} THEN t.style[n].measure[ax]
    ELSE IF ax = "x" THEN SumOuter(t, InFlowChildren(t, n))
    ELSE MaxOuter(t, InFlowChildren(t, n))

\* The border-box size of n before free space is shared out.
HypotheticalSize(t, n, ax) ==
    IF KnownSize(t, n, ax) # Indefinite THEN KnownSize(t, n, ax)
    ELSE Clamp(t, n, ax, ContentSize(t, n, ax) + Inner(t.style[n]))

\* The final border-box size of n: on the main axis of a parent of fixed
\* width the free space is shared equally among the children that grow.
FinalSize(t, n, ax) ==
    LET p == t.parent[n]
        room == ParentKnownInner(t, n, ax)
    IN IF /\ ax = "x" /\ p # 0 /\ room # Indefinite
          /\ t.style[n].position # "ABSOLUTE" /\ t.style[n].flex_grow > 0
       THEN LET flow == InFlowChildren(t, p)
                free == room - SumOuter(t, flow)
                growers == {c \in flow : t.style[c].flex_grow > 0}
            IN Clamp(t, n, ax, HypotheticalSize(t, n, ax) + Max(free, 0) \div Cardinality(growers))
       ELSE HypotheticalSize(t, n, ax)

RECURSIVE SumFinalOuter(_, _)
SumFinalOuter(t, S) ==
    IF S = {} THEN 0
    ELSE LET c == CHOOSE c \in S : TRUE
         IN FinalSize(t, c, "x") + 2 * t.style[c].margin + SumFinalOuter(t, S \ {c})

\* The position of the border box of n on ax, from the root's border box at
\* 0.  An in-flow child follows its earlier in-flow siblings in the parent's
\* content box, moved by its insets; an ABSOLUTE child is placed by its
\* insets in the parent's padding box, at the start of the content box when
\* it has none.  The inset of the start side (left, top) is used when both
\* sides have one.
RECURSIVE Location(_, _, _)
Location(t, n, ax) ==
    IF t.parent[n] = 0 THEN 0
    ELSE LET p == t.parent[n]
             ps == t.style[p]
             st == t.style[n]
             inside == Location(t, p, ax) + ps.border
             padding_box == FinalSize(t, p, ax) - 2 * ps.border
         IN IF st.position = "ABSOLUTE"
            THEN inside +
                 (IF st.inset[ax].kind # "auto"
                  THEN st.margin + ResolveLength(st.inset[ax], padding_box)
                  ELSE IF st.inset_end[ax].kind # "auto"
                  THEN padding_box - ResolveLength(st.inset_end[ax], padding_box)
                       - st.margin - FinalSize(t, n, ax)
                  ELSE st.margin + ps.padding)
            ELSE inside + ps.padding + st.margin +
                 (IF ax = "x"
                  THEN SumFinalOuter(t, {c \in InFlowChildren(t, p) : c < n})
                  ELSE 0) +
                 (IF st.inset[ax].kind # "auto"
                  THEN ResolveLength(st.inset[ax], FinalSize(t, p, ax) - Inner(ps))
                  ELSE IF st.inset_end[ax].kind # "auto"
                  THEN 0 - ResolveLength(st.inset_end[ax], FinalSize(t, p, ax) - Inner(ps))
                  ELSE 0)

NoBox == [pos |-> [x |-> 0, y |-> 0], size |-> [x |-> 0, y |-> 0]]

\* Node.compute_layout() of the solver: the border box of every node of t.
SolverComputeLayout(t) ==
    [n \in DOMAIN t.parent |->
        IF n \in t.present
        THEN [pos |-> [ax \in Axes |-> Location(t, n, ax)],
              size |-> [ax \in Axes |-> FinalSize(t, n, ax)]]
        ELSE NoBox]

\* StretchableNode.get_box(edge, relative=False) on a computed border box.
get_box(box, st, edge) ==
    LET grow == CASE edge = "MARGIN" -> st.margin
                  [] edge = "BORDER" -> 0
                  [] edge = "PADDING" -> 0 - st.border
                  [] OTHER -> 0 - st.border - st.padding
    IN [pos |-> [ax \in Axes |-> box.pos[ax] - grow],
        size |-> [ax \in Axes |-> box.size[ax] + 2 * grow]]

-----------------------------------------------------------------------------
(* Layout: LayoutEngine *)

LayoutNodes == DOMAIN lParent

Root == CHOOSE n \in LayoutNodes : lParent[n] = 0

\* node.children, in order
RECURSIVE ChildrenFrom(_, _)
ChildrenFrom(node, k) ==
    IF k \notin LayoutNodes THEN <<>>
    ELSE (IF lParent[k] = node THEN <<k>> ELSE <<>>) \o ChildrenFrom(node, k + 1)

children(node) == ChildrenFrom(node, 1)

\* LayoutResult(stretchable_node, offset_x, offset_y); linked is FALSE while
\* the node's _layout_result is None.
NoLayoutResult == [linked |-> FALSE, offset |-> [x |-> 0, y |-> 0]]

LayoutResult(offset_x, offset_y) == [linked |-> TRUE, offset |-> [x |-> offset_x, y |-> offset_y]]

\* The solver tree compute_layout() solves.
StretchableTree == [parent |-> lParent, style |-> stStyle, present |-> node_map]

\* abs()
abs(v) == IF v < 0 THEN 0 - v ELSE v

\* LayoutEngine._apply_offset_to_layout_result, on the map lr of the nodes'
\* layout results.
_apply_offset_to_layout_result(lr, pictex_node, offset_x, offset_y) ==
    IF offset_x = 0 /\ offset_y = 0 THEN lr
    ELSE IF ~lr[pictex_node].linked THEN lr
    ELSE [lr EXCEPT ![pictex_node] =
            LayoutResult(@.offset.x + offset_x, @.offset.y + offset_y)]

\* The offset _fix_canvas_relative_positions computes for a fixed child of
\* pictex_node.
FixedOffset(pictex_node, ax) ==
    LET parent_box == get_box(stLayout[pictex_node], stStyle[pictex_node], "PADDING")
    IN 0 - abs(origin[ax] - parent_box.pos[ax])

\* _fix_canvas_relative_positions that adds the offset handed down by an
\* outer fixed node to the offset of a fixed child.
RECURSIVE _fix_canvas_relative_positions_adding_outer(_, _, _, _, _)
_fix_canvas_relative_positions_adding_outer(lr, pictex_node, cs, parent_offset_x, parent_offset_y) ==
    IF cs = <<>> THEN lr
    ELSE LET pictex_child == Head(cs)
             is_fixed == lStyle[pictex_child].position.type = "fixed"
             offset_x == IF is_fixed THEN parent_offset_x + FixedOffset(pictex_node, "x")
                         ELSE parent_offset_x
             offset_y == IF is_fixed THEN parent_offset_y + FixedOffset(pictex_node, "y")
                         ELSE parent_offset_y
             applied == _apply_offset_to_layout_result(lr, pictex_child, offset_x, offset_y)
             below == _fix_canvas_relative_positions_adding_outer(
                          applied, pictex_child, children(pictex_child), offset_x, offset_y)
         IN _fix_canvas_relative_positions_adding_outer(below, pictex_node, Tail(cs),
                                                        parent_offset_x, parent_offset_y)

\* LayoutEngine._fix_canvas_relative_positions: "for pictex_child in
\* pictex_node.children" over the children cs still to visit.
RECURSIVE _fix_canvas_relative_positions(_, _, _, _, _)
_fix_canvas_relative_positions(lr, pictex_node, cs, parent_offset_x, parent_offset_y) ==
    IF cs = <<>> THEN lr
    ELSE LET pictex_child == Head(cs)
             is_fixed == lStyle[pictex_child].position.type = "fixed"
             offset_x == IF is_fixed THEN FixedOffset(pictex_node, "x") ELSE parent_offset_x
             offset_y == IF is_fixed THEN FixedOffset(pictex_node, "y") ELSE parent_offset_y
             applied == _apply_offset_to_layout_result(lr, pictex_child, offset_x, offset_y)
             below == _fix_canvas_relative_positions(applied, pictex_child,
                                                     children(pictex_child), offset_x, offset_y)
         IN _fix_canvas_relative_positions(below, pictex_node, Tail(cs),
                                           parent_offset_x, parent_offset_y)

\* LayoutEngine._compute_translate_offset that takes a percentage of the
\* size as that many pixels.
_compute_translate_offset_as_pixels(value, size) ==
    CASE value.kind = "none" -> 0
      [] value.kind = "number" -> value.v
      [] value.kind = "percent_str" -> value.v * PxUnits
      [] OTHER -> 0

\* LayoutEngine._compute_translate_offset
_compute_translate_offset(value, size) ==
    CASE value.kind = "none" -> 0
      [] value.kind = "number" -> value.v
      [] value.kind = "percent_str" -> (size * value.v) \div 100
      [] OTHER -> 0

\* _apply_translate_transform that moves a translated node only, not the
\* nodes below it.
RECURSIVE _apply_translate_transform_own_only(_, _, _, _, _)
_apply_translate_transform_own_only(lr, pictex_node, cs, parent_offset_x, parent_offset_y) ==
    IF cs = <<>> THEN lr
    ELSE LET pictex_child == Head(cs)
             transform == lStyle[pictex_child].transform
             parent_box == get_box(stLayout[pictex_child], stStyle[pictex_child], "BORDER")
             dx == IF transform.set
                   THEN _compute_translate_offset(transform.translate_x, parent_box.size.x)
                   ELSE 0
             dy == IF transform.set
                   THEN _compute_translate_offset(transform.translate_y, parent_box.size.y)
                   ELSE 0
             applied == _apply_offset_to_layout_result(lr, pictex_child, dx, dy)
             below == _apply_translate_transform_own_only(applied, pictex_child,
                                                          children(pictex_child), 0, 0)
         IN _apply_translate_transform_own_only(below, pictex_node, Tail(cs), 0, 0)

\* LayoutEngine._apply_translate_transform, over the children cs still to
\* visit.
RECURSIVE _apply_translate_transform(_, _, _, _, _)
_apply_translate_transform(lr, pictex_node, cs, parent_offset_x, parent_offset_y) ==
    IF cs = <<>> THEN lr
    ELSE LET pictex_child == Head(cs)
             transform == lStyle[pictex_child].transform
             parent_box == get_box(stLayout[pictex_child], stStyle[pictex_child], "BORDER")
             dx == IF transform.set
                   THEN parent_offset_x +
                        _compute_translate_offset(transform.translate_x, parent_box.size.x)
                   ELSE parent_offset_x
             dy == IF transform.set
                   THEN parent_offset_y +
                        _compute_translate_offset(transform.translate_y, parent_box.size.y)
                   ELSE parent_offset_y
             applied == _apply_offset_to_layout_result(lr, pictex_child, dx, dy)
             below == _apply_translate_transform(applied, pictex_child,
                                                 children(pictex_child), dx, dy)
         IN _apply_translate_transform(below, pictex_node, Tail(cs),
                                       parent_offset_x, parent_offset_y)

\* floor and ceil of a length, in whole pixels
floor(v) == v \div PxUnits

\* A ceil that rounds down.
ceil_rounding_down(v) == v \div PxUnits

ceil(v) == 0 - ((0 - v) \div PxUnits)

\* to_int_skia_rect(skia.Rect.MakeXYWH(x, y, width, height)), in pixels
to_int_skia_rect(x, y, width, height) ==
    [left |-> floor(x), top |-> floor(y), right |-> ceil(x + width), bottom |-> ceil(y + height)]

\* LayoutResult.get_border_bounds / get_padding_bounds / get_margin_bounds /
\* get_content_bounds of a node
get_bounds(n, edge) ==
    LET box == get_box(stLayout[n], stStyle[n], edge)
    IN to_int_skia_rect(box.pos.x + layout_result[n].offset.x,
                        box.pos.y + layout_result[n].offset.y,
                        box.size.x, box.size.y)

\* A tree handed to compute_layout, nothing computed yet.
LayoutStart ==
    /\ node_map = {}
    /\ stStyle = [n \in LayoutNodes |-> StretchableStyle]
    /\ stLayout = [n \in LayoutNodes |-> NoBox]
    /\ layout_result = [n \in LayoutNodes |-> NoLayoutResult]
    /\ origin = [x |-> 0, y |-> 0]
    /\ lPc = "start"

LayoutFrame == UNCHANGED <<styleVars, wrapVars, resolverVars, builderVars, elementVars, textNodeVars, runVars, rowVars>>

\* compute_layout: self._node_map.clear(); self._build_stretchable_tree(root)
BuildStretchableTree ==
    /\ lPc = "start"
    /\ node_map' = LayoutNodes
    /\ stStyle' = [n \in LayoutNodes |-> _create_base_style(lStyle[n])]
    /\ lPc' = "built"
    /\ UNCHANGED <<lParent, lStyle, stLayout, layout_result, origin>>
    /\ LayoutFrame

\* compute_layout: stretchable_root.compute_layout()
SolveLayout ==
    /\ lPc = "built"
    /\ stLayout' = SolverComputeLayout(StretchableTree)
    /\ lPc' = "solved"
    /\ UNCHANGED <<lParent, lStyle, node_map, stStyle, layout_result, origin>>
    /\ LayoutFrame

\* LinkLayoutResults that keeps the offsets of a result linked by an earlier
\* call.
LinkLayoutResultsKeepingOffsets ==
    /\ lPc = "solved"
    /\ layout_result' = [n \in LayoutNodes |->
                            IF layout_result[n].linked THEN layout_result[n]
                            ELSE LayoutResult(0, 0)]
    /\ origin' = get_box(stLayout[Root], stStyle[Root], "MARGIN").pos
    /\ lPc' = "linked"
    /\ UNCHANGED <<lParent, lStyle, node_map, stStyle, stLayout>>
    /\ LayoutFrame

\* compute_layout: self._link_layout_results(root, stretchable_root), and
\* origin read from the root's margin box
LinkLayoutResults ==
    /\ lPc = "solved"
    /\ layout_result' = [n \in LayoutNodes |-> LayoutResult(0, 0)]
    /\ origin' = get_box(stLayout[Root], stStyle[Root], "MARGIN").pos
    /\ lPc' = "linked"
    /\ UNCHANGED <<lParent, lStyle, node_map, stStyle, stLayout>>
    /\ LayoutFrame

\* compute_layout: self._fix_canvas_relative_positions(root, origin)
FixCanvasRelativePositions ==
    /\ lPc = "linked"
    /\ layout_result' = _fix_canvas_relative_positions(layout_result, Root, children(Root), 0, 0)
    /\ lPc' = "fixed"
    /\ UNCHANGED <<lParent, lStyle, node_map, stStyle, stLayout, origin>>
    /\ LayoutFrame

\* ApplyTranslateTransform as it would be if compute_layout called it
\* before _fix_canvas_relative_positions.
ApplyTranslateTransformEarly ==
    /\ lPc \in {"linked", "fixed"}
    /\ layout_result' = _apply_translate_transform(layout_result, Root, children(Root), 0, 0)
    /\ lPc' = "done"
    /\ UNCHANGED <<lParent, lStyle, node_map, stStyle, stLayout, origin>>
    /\ LayoutFrame

\* compute_layout: self._apply_translate_transform(root, origin)
ApplyTranslateTransform ==
    /\ lPc = "fixed"
    /\ layout_result' = _apply_translate_transform(layout_result, Root, children(Root), 0, 0)
    /\ lPc' = "done"
    /\ UNCHANGED <<lParent, lStyle, node_map, stStyle, stLayout, origin>>
    /\ LayoutFrame

NextLayout ==
    \/ BuildStretchableTree
    \/ SolveLayout
    \/ LinkLayoutResults
    \/ FixCanvasRelativePositions
    \/ ApplyTranslateTransform

-----------------------------------------------------------------------------
(* Layout of a tree with one positioned node *)

\* The trees of three nodes: a root with two children, and a chain.
LayoutTrees == {<<0, 1, 1>>, <<0, 1, 2>>}

\* margin(), border() and padding() of the nodes around the positioned one
BoxStyles ==
    {[DefaultLayoutStyle EXCEPT !.margin = m, !.border = b, !.padding = p,
                                !.intrinsic = [x |-> Px(40), y |-> Px(20)]] :
        m \in {0, Px(5)}, b \in {0, Px(2)}, p \in {0, Px(10)}}

\* relative_position() and absolute_position() of the nodes around the
\* positioned one
AncestorPositions ==
    {NoPosition,
     Position("relative", Number(Px(0 - 30)), Number(Px(0 - 30))),
     Position("absolute", Number(Px(0 - 30)), Number(Px(0 - 30)))}

\* absolute_position(top, left) and fixed_position(top, left) of the
\* positioned node; place() sets a fixed position too
PositionedStyles ==
    {[DefaultLayoutStyle EXCEPT !.position = Position(type, Number(inset[1]), Number(inset[2])),
                                !.intrinsic = [x |-> Px(40), y |-> Px(20)]] :
        type \in {"absolute", "fixed"},
        inset \in {<<0, 0>>, <<Px(7), Px(3)>>}}

InitPositioned ==
    /\ lParent \in LayoutTrees
    /\ \E k \in 2..3 :
          lStyle \in {st \in [1..3 ->
                                BoxStyles \cup PositionedStyles \cup
                                {[b EXCEPT !.position = pos] : b \in BoxStyles, pos \in AncestorPositions}] :
                        /\ st[1] \in BoxStyles
                        /\ st[k] \in PositionedStyles
                        /\ \A n \in 2..3 : n # k => st[n] \notin PositionedStyles}
    /\ LayoutStart
    /\ StyleIdle /\ parent = [n \in StyleNodes |-> n - 1]
    /\ WrapIdle
    /\ ResolverIdle
    /\ BuilderIdle
    /\ ElementIdle
    /\ TextNodeIdle
    /\ RunsIdle
    /\ RowIdle

SpecPositioned == InitPositioned /\ [][NextLayout]_vars

\* A second compute_layout on the same engine and tree: the node map, the
\* solver's boxes and the linked results of the first call are still there.
ComputeLayoutAgain ==
    /\ lPc = "done"
    /\ lPc' = "start"
    /\ UNCHANGED <<lParent, lStyle, node_map, stStyle, stLayout, layout_result, origin>>
    /\ LayoutFrame

\* An engine whose node map is empty or holds the nodes of an earlier tree,
\* given a tree with a positioned node that has a translate or none.
InitCalls ==
    /\ lParent \in LayoutTrees
    /\ \E k \in 2..3, box \in BoxStyles, positioned \in PositionedStyles,
          transform \in {NoTransform, Transform(PercentStr(0 - 50), Number(Px(5)))} :
          lStyle = [n \in 1..3 |-> IF n = k THEN [positioned EXCEPT !.transform = transform] ELSE box]
    /\ node_map \in {{}, {4, 5}}
    /\ stStyle = [n \in LayoutNodes |-> StretchableStyle]
    /\ stLayout = [n \in LayoutNodes |-> NoBox]
    /\ layout_result = [n \in LayoutNodes |-> NoLayoutResult]
    /\ origin = [x |-> 0, y |-> 0]
    /\ lPc = "start"
    /\ StyleIdle /\ parent = [n \in StyleNodes |-> n - 1]
    /\ WrapIdle
    /\ ResolverIdle
    /\ BuilderIdle
    /\ ElementIdle
    /\ TextNodeIdle
    /\ RunsIdle
    /\ RowIdle

NextCalls == NextLayout \/ ComputeLayoutAgain

SpecCalls == InitCalls /\ [][NextCalls]_vars

-----------------------------------------------------------------------------
(* Layout of a tree with nested fixed and translated nodes *)

\* Row(Row(Row(Text))), Row(Row(Text, Text)) and Row(Text, Row(Text))
NestedTrees == {<<0, 1, 2, 3>>, <<0, 1, 2, 2>>, <<0, 1, 1, 2>>}

\* fixed_position(top, left) of a node below the root, or none
NestedPositions ==
    {NoPosition,
     Position("fixed", Number(Px(7)), Number(Px(3))),
     Position("fixed", Number(0 - Px(30)), Number(0))}

\* translate(x, y) of a node below the root, or none
NestedTransforms == {NoTransform, Transform(PercentStr(0 - 50), Number(Px(5)))}

\* A tree of four nodes handed to compute_layout: every node below the root
\* may have a fixed position and a translate.
InitNested ==
    /\ lParent \in NestedTrees
    /\ \E m \in {0, Px(5)}, p \in {0, Px(10)} :
       \E position \in [2..4 -> NestedPositions], transform \in [2..4 -> NestedTransforms] :
          lStyle = [n \in 1..4 |->
                      IF n = 1
                      THEN [DefaultLayoutStyle EXCEPT !.margin = m, !.padding = p]
                      ELSE [DefaultLayoutStyle EXCEPT !.position = position[n],
                                                      !.transform = transform[n],
                                                      !.intrinsic = [x |-> Px(45), y |-> Px(25)]]]
    /\ LayoutStart
    /\ StyleIdle /\ parent = [n \in StyleNodes |-> n - 1]
    /\ WrapIdle
    /\ ResolverIdle
    /\ BuilderIdle
    /\ ElementIdle
    /\ TextNodeIdle
    /\ RunsIdle
    /\ RowIdle

SpecNested == InitNested /\ [][NextCalls]_vars

\* c and the nodes below it
RECURSIVE Subtree(_)
Subtree(c) == {c} \cup UNION {Subtree(d) : d \in {d \in LayoutNodes : lParent[d] = c}}

-----------------------------------------------------------------------------
(* Layout of an element centred in its parent *)

\* Row(Row(element).size(300, 200)): the root, the 300x200 parent and the
\* element with absolute_position(top="50%", left="50%") and
\* translate(x="-50%", y="-50%").
InitCentre ==
    /\ lParent = <<0, 1, 2>>
    /\ \E m \in {0, Px(5)}, p \in {0, Px(10)}, pp \in {0, Px(20)}, ep \in {0, Px(10)} :
       \E w \in 1..MaxElementPx, h \in 1..MaxElementPx :
          lStyle = <<[DefaultLayoutStyle EXCEPT !.margin = m, !.padding = p],
                     [DefaultLayoutStyle EXCEPT !.padding = pp,
                                                !.width = SizeValue("absolute", Px(300)),
                                                !.height = SizeValue("absolute", Px(200))],
                     [DefaultLayoutStyle EXCEPT !.padding = ep,
                                                !.intrinsic = [x |-> Px(w), y |-> Px(h)],
                                                !.position = Position("absolute", PercentStr(50), PercentStr(50)),
                                                !.transform = Transform(PercentStr(0 - 50), PercentStr(0 - 50))]>>
    /\ LayoutStart
    /\ StyleIdle /\ parent = [n \in StyleNodes |-> n - 1]
    /\ WrapIdle
    /\ ResolverIdle
    /\ BuilderIdle
    /\ ElementIdle
    /\ TextNodeIdle
    /\ RunsIdle
    /\ RowIdle

SpecCentre == InitCentre /\ [][NextLayout]_vars

-----------------------------------------------------------------------------
(* Layout of a node with size constraints *)

SizeModes == {"absolute", "percent", "auto", "fit-content", "fill-available", "fit-background-image"}

\* size(), on both axes alike
Sizes == {SizeValue(mode, CASE mode = "absolute" -> Px(100) [] mode = "percent" -> 50 [] OTHER -> 0) :
            mode \in SizeModes}

\* min_width()/min_height() and max_width()/max_height(), on both axes alike
Constraints == {NoSize, SizeValue("absolute", Px(50)), SizeValue("absolute", Px(150)),
                SizeValue("percent", 25)}

\* Row(child): the root, of fixed size or not, and the constrained child.
InitSizing ==
    /\ lParent = <<0, 1>>
    /\ \E rs \in {NoSize, SizeValue("absolute", Px(400))}, size \in Sizes,
          mn \in Constraints, mx \in Constraints,
          c \in {Px(20), Px(100), Px(300)}, p \in {0, Px(30)}, img \in BOOLEAN :
          lStyle = <<[DefaultLayoutStyle EXCEPT !.width = rs, !.height = rs],
                     [DefaultLayoutStyle EXCEPT !.width = size, !.height = size,
                                                !.min_width = mn, !.min_height = mn,
                                                !.max_width = mx, !.max_height = mx,
                                                !.padding = p,
                                                !.intrinsic = [x |-> c, y |-> c],
                                                !.background_image = [set |-> img, x |-> Px(120), y |-> Px(120)]]>>
    /\ LayoutStart
    /\ StyleIdle /\ parent = [n \in StyleNodes |-> n - 1]
    /\ WrapIdle
    /\ ResolverIdle
    /\ BuilderIdle
    /\ ElementIdle
    /\ TextNodeIdle
    /\ RunsIdle
    /\ RowIdle

SpecSizing == InitSizing /\ [][NextLayout]_vars

-----------------------------------------------------------------------------
(* SizeResolver: content_width and content_height of a node *)

\* What a read of a size gives: a size, or the exception raised.
Size(v) == [status |-> "size", v |-> v]

Raised(exception) == [status |-> exception, v |-> 0]

Unread == [status |-> "unread", v |-> 0]

\* computed_styles.width / computed_styles.height
AxisStyle(n, ax) == IF ax = "x" THEN lStyle[n].width ELSE lStyle[n].height

\* SizeResolver._get_horizontal_spacing / _get_vertical_spacing
_get_spacing(n) == 2 * lStyle[n].padding + 2 * lStyle[n].border

\* Node._get_positionable_children
_get_positionable_children(n) ==
    SelectSeq(children(n), LAMBDA c : lStyle[c].position.type = "none")

RECURSIVE content_size(_, _, _)
RECURSIVE compute_intrinsic(_, _, _)
RECURSIVE ChildrenMarginSizes(_, _, _, _)

\* The sum (on x) or the maximum (on y) of margin_bounds of the children cs,
\* from acc; the first exception a child raises ends it.
ChildrenMarginSizes(cs, ax, acc, fuel) ==
    IF cs = <<>> THEN Size(acc)
    ELSE LET c == Head(cs)
             content == content_size(c, ax, fuel)
             outer == content.v + _get_spacing(c) + 2 * lStyle[c].margin
         IN IF content.status # "size" THEN content
            ELSE ChildrenMarginSizes(Tail(cs), ax,
                                     IF ax = "x" THEN acc + outer ELSE Max(acc, outer), fuel)

\* compute_intrinsic_width / compute_intrinsic_height: of RowNode for a node
\* with children, of a leaf otherwise.
compute_intrinsic(n, ax, fuel) ==
    IF fuel = 0 THEN Raised("RecursionError")
    ELSE IF children(n) = <<>> THEN Size(lStyle[n].intrinsic[ax])
    ELSE ChildrenMarginSizes(_get_positionable_children(n), ax, 0, fuel - 1)

\* SizeResolver._get_parent_percent_axis_size that does not look at the mode
\* of the parent's size.
_get_parent_percent_axis_size_any_parent(n, ax, value, fuel) ==
    LET p == lParent[n]
    IN IF p = 0 THEN Raised("ValueError")
       ELSE LET parent_content == content_size(p, ax, fuel)
            IN IF parent_content.status # "size" THEN parent_content
               ELSE Size((parent_content.v * value) \div 100)

\* SizeResolver._get_parent_percent_axis_size, for factor = value / 100.0
_get_parent_percent_axis_size(n, ax, value, fuel) ==
    LET p == lParent[n]
    IN IF p = 0 THEN Raised("ValueError")
       ELSE IF AxisStyle(p, ax).mode \in {"none", "fit-content", "auto"} THEN Raised("ValueError")
       ELSE LET parent_content == content_size(p, ax, fuel)
            IN IF parent_content.status # "size" THEN parent_content
               ELSE Size((parent_content.v * value) \div 100)

\* SizeResolver._get_parent_available_axis_size_per_child
_get_parent_available_axis_size_per_child(n, ax, fuel) ==
    LET p == lParent[n]
    IN IF p = 0 THEN Raised("ValueError")
       ELSE IF AxisStyle(p, ax).mode \in {"none", "fit-content", "auto"} THEN Raised("ValueError")
       ELSE compute_intrinsic(n, ax, fuel)

\* SizeResolver._get_background_image_axis_size
_get_background_image_axis_size(n, ax) ==
    IF ~lStyle[n].background_image.set THEN Raised("ValueError")
    ELSE Size(lStyle[n].background_image[ax])

\* SizeResolver._get_axis_size
_get_axis_size(n, value, ax, outer_space, fuel) ==
    LET minus(r) == IF r.status = "size" THEN Size(r.v - outer_space) ELSE r
    IN CASE value.mode = "absolute" -> Size(value.value - outer_space)
         [] value.mode = "percent" -> minus(_get_parent_percent_axis_size(n, ax, value.value, fuel))
         [] value.mode \in {"fit-content", "auto"} -> compute_intrinsic(n, ax, fuel)
         [] value.mode = "fill-available" -> _get_parent_available_axis_size_per_child(n, ax, fuel)
         [] value.mode = "fit-background-image" -> minus(_get_background_image_axis_size(n, ax))
         [] OTHER -> Raised("ValueError")

\* Node.content_width / Node.content_height: SizeResolver.resolve_width /
\* resolve_height, at recursion depth MaxRecursion - fuel.
content_size(n, ax, fuel) ==
    IF fuel = 0 THEN Raised("RecursionError")
    ELSE IF forced_size[n][ax] # Indefinite
    THEN Size(Max(0, forced_size[n][ax] - _get_spacing(n)))
    ELSE IF AxisStyle(n, ax).mode = "none" THEN compute_intrinsic(n, ax, fuel - 1)
    ELSE LET box == _get_axis_size(n, AxisStyle(n, ax), ax, _get_spacing(n), fuel - 1)
         IN IF box.status = "size" THEN Size(Max(0, box.v)) ELSE box

\* size(width, height) of a node, on both axes alike
ResolverSizes ==
    {NoSize, SizeValue("auto", 0), SizeValue("fit-content", 0), SizeValue("absolute", Px(200)),
     SizeValue("percent", 50), SizeValue("fill-available", 0), SizeValue("fit-background-image", 0)}

\* relative_position(top, left) of the last node, or no position
ResolverPositions == {NoPosition, Position("relative", Number(Px(5)), Number(Px(5)))}

\* A tree after Node.clear(): no forced size, nothing read.
InitResolve ==
    /\ lParent \in LayoutTrees
    /\ \E sizes \in [1..3 -> ResolverSizes], img \in BOOLEAN, position \in ResolverPositions :
          lStyle = [n \in 1..3 |->
                      [DefaultLayoutStyle EXCEPT !.width = sizes[n], !.height = sizes[n],
                                                 !.position = IF n = 3 THEN position ELSE NoPosition,
                                                 !.padding = Px(10),
                                                 !.intrinsic = [x |-> Px(40), y |-> Px(20)],
                                                 !.background_image = [set |-> img, x |-> Px(120), y |-> Px(80)]]]
    /\ forced_size = [n \in 1..3 |-> [x |-> Indefinite, y |-> Indefinite]]
    /\ resolved = [n \in 1..3 |-> [x |-> Unread, y |-> Unread]]
    /\ node_map = {}
    /\ stStyle = <<>>
    /\ stLayout = <<>>
    /\ layout_result = <<>>
    /\ origin = [x |-> 0, y |-> 0]
    /\ lPc = "idle"
    /\ StyleIdle /\ parent = [n \in StyleNodes |-> n - 1]
    /\ WrapIdle
    /\ BuilderIdle
    /\ ElementIdle
    /\ TextNodeIdle
    /\ RunsIdle
    /\ RowIdle

ResolverFrame == UNCHANGED <<styleVars, wrapVars, layoutVars, builderVars, elementVars, textNodeVars, runVars, rowVars>>

\* _calculate_bounds reads content_bounds of every node: content_width
ReadContentWidth(n) ==
    /\ resolved[n].x.status = "unread"
    /\ resolved' = [resolved EXCEPT ![n].x = content_size(n, "x", MaxRecursion)]
    /\ UNCHANGED forced_size
    /\ ResolverFrame

\* _calculate_bounds reads content_bounds of every node: content_height
ReadContentHeight(n) ==
    /\ resolved[n].y.status = "unread"
    /\ resolved' = [resolved EXCEPT ![n].y = content_size(n, "y", MaxRecursion)]
    /\ UNCHANGED forced_size
    /\ ResolverFrame

\* RowNode._apply_stretch_constraints of a row whose alignment is stretch:
\* its children of unset or auto height are forced to its content height.
\* An exception raised by the read of that height leaves no child forced.
ApplyStretchConstraints(n) ==
    /\ children(n) # <<>>
    /\ \A c \in LayoutNodes : resolved[c] = [x |-> Unread, y |-> Unread]
    /\ \A c \in LayoutNodes : forced_size[c].y = Indefinite
    /\ LET height == content_size(n, "y", MaxRecursion)
       IN /\ height.status = "size"
          /\ forced_size' = [c \in LayoutNodes |->
                IF lParent[c] = n /\ lStyle[c].height.mode \in {"none", "auto"}
                THEN [forced_size[c] EXCEPT !.y = height.v]
                ELSE forced_size[c]]
    /\ UNCHANGED resolved
    /\ ResolverFrame

NextResolve ==
    \/ \E n \in LayoutNodes : ReadContentWidth(n)
    \/ \E n \in LayoutNodes : ReadContentHeight(n)
    \/ \E n \in LayoutNodes : ApplyStretchConstraints(n)

SpecResolve == InitResolve /\ [][NextResolve]_vars

-----------------------------------------------------------------------------
(* Builders: containers and their children *)

Builders == 1..MaxBuilders

\* what a styling call sets: padding(v)
StyleValues == 0..2

\* The builder objects: how many there are, the style and the children of
\* each, and what each was copied from.
Heap == [next |-> bNext, style |-> bStyle, children |-> bChildren, copy_of |-> bCopyOf]

\* Element(): a new object with the default style and no children
NewObject(h, source, style, kids) ==
    LET id == h.next + 1
    IN [heap |-> [next |-> id,
                  style |-> [h.style EXCEPT ![id] = style],
                  children |-> [h.children EXCEPT ![id] = kids],
                  copy_of |-> [h.copy_of EXCEPT ![id] = source]],
        id |-> id]

RECURSIVE deepcopy(_, _)
RECURSIVE DeepcopyAll(_, _)

\* copy.deepcopy of the list of children of an object
DeepcopyAll(h, cs) ==
    IF cs = <<>> THEN [heap |-> h, ids |-> <<>>]
    ELSE LET first == deepcopy(h, Head(cs))
             rest == DeepcopyAll(first.heap, Tail(cs))
         IN [heap |-> rest.heap, ids |-> <<first.id>> \o rest.ids]

\* copy.deepcopy(child): a new object with a copy of the style and copies of
\* the children
deepcopy(h, child) ==
    LET kids == DeepcopyAll(h, h.children[child])
    IN NewObject(kids.heap, child, h.style[child], kids.ids)

\* The number of objects deepcopy(child) creates.
RECURSIVE CopySize(_)
RECURSIVE CopySizeAll(_)
CopySizeAll(cs) == IF cs = <<>> THEN 0 ELSE CopySize(Head(cs)) + CopySizeAll(Tail(cs))

CopySize(child) == IF child = 0 THEN 1 ELSE 1 + CopySizeAll(bChildren[child])

\* The body of the loop of _parse_children that keeps the builder it was
\* given.
ParseChildShared(h, child) ==
    IF child = 0 THEN NewObject(h, 0, 0, <<>>)
    ELSE [heap |-> h, id |-> child]

\* The body of the loop of _parse_children: Text(child) for a str, written
\* 0, else deepcopy(child).
ParseChild(h, child) ==
    IF child = 0 THEN NewObject(h, 0, 0, <<>>)
    ELSE deepcopy(h, child)

\* Container._parse_children
RECURSIVE _parse_children(_, _)
_parse_children(h, cs) ==
    IF cs = <<>> THEN [heap |-> h, ids |-> <<>>]
    ELSE LET first == ParseChild(h, Head(cs))
             rest == _parse_children(first.heap, Tail(cs))
         IN [heap |-> rest.heap, ids |-> <<first.id>> \o rest.ids]

InitBuilder ==
    /\ bNext = 0
    /\ bStyle = [o \in Builders |-> 0]
    /\ bChildren = [o \in Builders |-> <<>>]
    /\ bCopyOf = [o \in Builders |-> 0]
    /\ bHandles = {}
    /\ StyleIdle /\ parent = [n \in StyleNodes |-> n - 1]
    /\ WrapIdle
    /\ LayoutIdle
    /\ ResolverIdle
    /\ ElementIdle
    /\ TextNodeIdle
    /\ RunsIdle
    /\ RowIdle

BuilderFrame == UNCHANGED <<styleVars, wrapVars, layoutVars, resolverVars, elementVars, textNodeVars, runVars, rowVars>>

\* Text("..."): a builder without children
NewText ==
    /\ bNext < MaxBuilders
    /\ LET made == NewObject(Heap, 0, 0, <<>>)
       IN /\ bNext' = made.heap.next
          /\ bStyle' = made.heap.style
          /\ bChildren' = made.heap.children
          /\ bCopyOf' = made.heap.copy_of
          /\ bHandles' = bHandles \cup {made.id}
    /\ BuilderFrame

\* Row(c1, c2) or Column(c1, c2): Container.__init__
NewContainer(cs) ==
    /\ bNext + 1 + CopySizeAll(cs) <= MaxBuilders
    /\ LET made == NewObject(Heap, 0, 0, <<>>)
           parsed == _parse_children(made.heap, cs)
       IN /\ bNext' = parsed.heap.next
          /\ bStyle' = parsed.heap.style
          /\ bChildren' = [parsed.heap.children EXCEPT ![made.id] = parsed.ids]
          /\ bCopyOf' = parsed.heap.copy_of
          /\ bHandles' = bHandles \cup {made.id}
    /\ BuilderFrame

\* A styling call on a builder object, one the caller holds or a stored
\* child: o.padding(v)
StyleCall(o, v) ==
    /\ o \in 1..bNext
    /\ bStyle[o] # v
    /\ bStyle' = [bStyle EXCEPT ![o] = v]
    /\ UNCHANGED <<bNext, bChildren, bHandles, bCopyOf>>
    /\ BuilderFrame

NextBuilder ==
    \/ NewText
    \/ \E cs \in UNION {[1..k -> bHandles \cup {0}] : k \in 1..2} : NewContainer(cs)
    \/ \E o \in Builders, v \in StyleValues : StyleCall(o, v)

SpecBuilder == InitBuilder /\ [][NextBuilder]_vars

-----------------------------------------------------------------------------
(* Element builders: the styling calls that parse their arguments *)

\* A str argument that is neither a number nor "N%": the keyword itself.
Keyword(k) == [kind |-> k, v |-> 0]

\* What a call gives back: the style it leaves and the exception it raised,
\* "none" when it returned self.
Returned(style) == [style |-> style, raised |-> "none"]

Raises(style, exception) == [style |-> style, raised |-> exception]

NoRatio == [set |-> FALSE, num |-> 0, den |-> 1]

\* Style(): the fields the calls below set, at their declared defaults.
ElementStyle ==
    [padding |-> <<0, 0, 0, 0>>, margin |-> <<0, 0, 0, 0>>, border_radius |-> <<>>,
     aspect_ratio |-> NoRatio, width |-> NoSize, height |-> NoSize,
     position |-> NoPosition, transform |-> NoTransform]

\* The sides (top, right, bottom, left) that 1, 2 or 4 arguments give; <<>>
\* for any other number of arguments.
Sides(args) ==
    CASE Len(args) = 1 -> <<args[1], args[1], args[1], args[1]>>
      [] Len(args) = 2 -> <<args[1], args[2], args[1], args[2]>>
      [] Len(args) = 4 -> args
      [] OTHER -> <<>>

\* Stylable.padding(*args)
padding(style, args) ==
    IF Len(args) \in {1, 2, 4} THEN Returned([style EXCEPT !.padding = Sides(args)])
    ELSE Raises(style, "TypeError")

\* Stylable.margin(*args)
margin(style, args) ==
    IF Len(args) \in {1, 2, 4} THEN Returned([style EXCEPT !.margin = Sides(args)])
    ELSE Raises(style, "TypeError")

\* Stylable._parse_radius_value: BorderRadiusValue(value, mode), mode
\* "TypeError" when it raises.
_parse_radius_value(value) ==
    CASE value.kind = "percent_str" -> [mode |-> "percent", value |-> value.v]
      [] value.kind = "number" -> [mode |-> "absolute", value |-> value.v]
      [] OTHER -> [mode |-> "TypeError", value |-> 0]

\* Stylable.border_radius(*args)
border_radius(style, args) ==
    LET parsed == [i \in DOMAIN args |-> _parse_radius_value(args[i])]
    IN IF Len(args) \notin {1, 2, 4} THEN Raises(style, "TypeError")
       ELSE IF \E i \in DOMAIN parsed : parsed[i].mode = "TypeError" THEN Raises(style, "TypeError")
       ELSE Returned([style EXCEPT !.border_radius = Sides(parsed)])

\* The arguments of aspect_ratio: a number, a str "a/b", a str "n", and a str
\* that float() does not parse or that has two slashes.
RatioNumber(n) == [kind |-> "number", v |-> n, w |-> 1]

RatioStr(a, b) == [kind |-> "ratio_str", v |-> a, w |-> b]

NumberStr(n) == [kind |-> "number_str", v |-> n, w |-> 1]

BadStr(k) == [kind |-> k, v |-> 0, w |-> 1]

\* WithSizeMixin.aspect_ratio(ratio); the ratio is kept as num / den.
aspect_ratio(style, ratio) ==
    IF ratio.kind \notin {"number", "ratio_str", "number_str"} THEN Raises(style, "ValueError")
    ELSE IF ratio.kind = "ratio_str" /\ ratio.w = 0 THEN Raises(style, "ValueError")
    ELSE IF (ratio.w > 0 /\ ratio.v <= 0) \/ (ratio.w < 0 /\ ratio.v >= 0)
    THEN Raises(style, "ValueError")
    ELSE Returned([style EXCEPT !.aspect_ratio = [set |-> TRUE, num |-> ratio.v, den |-> ratio.w]])

\* Image.resize that stores the factor before it checks it.
resize_stores_first(resize_factor, factor) ==
    IF factor <= 0 THEN [resize_factor |-> factor, raised |-> "ValueError"]
    ELSE [resize_factor |-> factor, raised |-> "none"]

\* Image.resize(factor), on the resize factor: the factor it leaves and the
\* exception raised.
resize(resize_factor, factor) ==
    IF factor <= 0 THEN [resize_factor |-> resize_factor, raised |-> "ValueError"]
    ELSE [resize_factor |-> factor, raised |-> "none"]

\* The members of the enum SizeValueMode.
SizeValueMode == {"auto", "absolute", "percent", "fit-content", "fit-background-image"}

\* WithSizeMixin._parse_size_value; mode is the exception when it raises.
_parse_size_value(value) ==
    CASE value.kind = "number" -> SizeValue("absolute", value.v)
      [] value.kind = "percent_str" -> SizeValue("percent", value.v)
      [] value.kind \in SizeValueMode -> SizeValue(value.kind, 0)
      [] OTHER -> SizeValue("ValueError", 0)

\* WithSizeMixin.size(width, height): the width is set before the height is
\* parsed.
size(style, width, height) ==
    LET parsed_width == _parse_size_value(width)
        parsed_height == _parse_size_value(height)
        with_width == IF width.kind = "none" THEN style ELSE [style EXCEPT !.width = parsed_width]
    IN IF width.kind # "none" /\ parsed_width.mode = "ValueError" THEN Raises(style, "ValueError")
       ELSE IF height.kind = "none" THEN Returned(with_width)
       ELSE IF parsed_height.mode = "ValueError" THEN Raises(with_width, "ValueError")
       ELSE Returned([with_width EXCEPT !.height = parsed_height])

\* f"-{pct}%" for pct = float(value.rstrip('%')): "-25.0%"; for a negative
\* pct the str has two minus signs and float() does not parse it.
NegatedPercentStr(pct) ==
    IF pct >= 0 THEN PercentStr(0 - pct) ELSE Keyword("malformed_percent_str")

\* WithPositionMixin._parse_horizontal_anchor / _parse_vertical_anchor, start
\* and end being "left" and "right" or "top" and "bottom": the inset of the
\* start side, of the end side, and the translate.
_parse_anchor(value, start, end) ==
    LET anchor(s, e, t) == [start |-> s, end |-> e, translate |-> t, raised |-> "none"]
    IN CASE value.kind = "number" -> anchor(value, NoValue, NoValue)
         [] value.kind = "percent_str" ->
               IF value.v = 0 THEN anchor(Number(0), NoValue, NoValue)
               ELSE IF value.v = 100 THEN anchor(NoValue, Number(0), NoValue)
               ELSE anchor(value, NoValue, NegatedPercentStr(value.v))
         [] value.kind = start -> anchor(Number(0), NoValue, NoValue)
         [] value.kind = "center" -> anchor(PercentStr(50), NoValue, PercentStr(0 - 50))
         [] value.kind = end -> anchor(NoValue, Number(0), NoValue)
         [] OTHER -> [start |-> NoValue, end |-> NoValue, translate |-> NoValue,
                      raised |-> "ValueError"]

\* place(): translate plus offset when translate is a number or None, the
\* offset alone when it is a str.
AddOffset(translate, offset) ==
    IF offset = 0 THEN translate
    ELSE IF translate.kind = "number" THEN Number(translate.v + offset)
    ELSE IF translate.kind = "none" THEN Number(offset)
    ELSE Number(offset)

\* WithPositionMixin.place(horizontal, vertical, x_offset, y_offset)
place(style, horizontal, vertical, x_offset, y_offset) ==
    LET h == _parse_anchor(horizontal, "left", "right")
        v == _parse_anchor(vertical, "top", "bottom")
        translate_x == AddOffset(h.translate, x_offset)
        translate_y == AddOffset(v.translate, y_offset)
        positioned == [style EXCEPT !.position =
                          [type |-> "fixed", top |-> v.start, right |-> h.end,
                           bottom |-> v.end, left |-> h.start]]
    IN IF h.raised # "none" THEN Raises(style, h.raised)
       ELSE IF v.raised # "none" THEN Raises(style, v.raised)
       ELSE IF translate_x.kind # "none" \/ translate_y.kind # "none"
       THEN Returned([positioned EXCEPT !.transform = Transform(translate_x, translate_y)])
       ELSE Returned(positioned)

\* WithPositionMixin.translate(x, y)
translate(style, x, y) == Returned([style EXCEPT !.transform = Transform(x, y)])

\* Element(): a new builder, nothing called on it yet.
NewElement ==
    /\ eStyle = ElementStyle
    /\ eResizeFactor = 100
    /\ eCall = [op |-> "__init__", args |-> <<>>, raised |-> "none"]

ElementFrame ==
    UNCHANGED <<styleVars, wrapVars, layoutVars, resolverVars, builderVars, textNodeVars, runVars, rowVars>>

\* A call on the builder that returned or raised.
ElementCall(op, args, result) ==
    /\ eStyle' = result.style
    /\ eCall' = [op |-> op, args |-> args, raised |-> result.raised]

\* The argument lists of padding(), margin() and border_radius(): 10, 20, ..
\* in pixels, from none to MaxArgs of them.
ArgLists == {[i \in 1..k |-> Px(10 * i)] : k \in 0..MaxArgs}

\* ... the same with every second radius a percentage
RadiusArgLists ==
    {[i \in 1..k |-> IF i % 2 = 0 THEN PercentStr(10 * i) ELSE Number(Px(10 * i))] : k \in 0..MaxArgs}

\* 2, 0, -1, "16/9", "1/0", "0/5", "-1/2", "2", "0", "abc", "1/2/3"
RatioArgs ==
    {RatioNumber(2), RatioNumber(0), RatioNumber(0 - 1),
     RatioStr(16, 9), RatioStr(1, 0), RatioStr(0, 5), RatioStr(0 - 1, 2),
     NumberStr(2), NumberStr(0), BadStr("abc"), BadStr("1/2/3")}

\* 0.5, 1.5, 0 and -1
ResizeArgs == {50, 150, 0, 0 - 100}

CallPadding(args) ==
    /\ ElementCall("padding", args, padding(eStyle, args))
    /\ UNCHANGED eResizeFactor
    /\ ElementFrame

CallMargin(args) ==
    /\ ElementCall("margin", args, margin(eStyle, args))
    /\ UNCHANGED eResizeFactor
    /\ ElementFrame

CallBorderRadius(args) ==
    /\ ElementCall("border_radius", args, border_radius(eStyle, args))
    /\ UNCHANGED eResizeFactor
    /\ ElementFrame

CallAspectRatio(ratio) ==
    /\ ElementCall("aspect_ratio", <<ratio>>, aspect_ratio(eStyle, ratio))
    /\ UNCHANGED eResizeFactor
    /\ ElementFrame

CallResize(factor) ==
    /\ eResizeFactor' = resize(eResizeFactor, factor).resize_factor
    /\ eCall' = [op |-> "resize", args |-> <<factor>>, raised |-> resize(eResizeFactor, factor).raised]
    /\ UNCHANGED eStyle
    /\ ElementFrame

InitStyling ==
    /\ NewElement
    /\ StyleIdle /\ parent = [n \in StyleNodes |-> n - 1]
    /\ WrapIdle
    /\ LayoutIdle
    /\ ResolverIdle
    /\ BuilderIdle
    /\ TextNodeIdle
    /\ RunsIdle
    /\ RowIdle

NextStyling ==
    \/ \E args \in ArgLists : CallPadding(args)
    \/ \E args \in ArgLists : CallMargin(args)
    \/ \E args \in RadiusArgLists : CallBorderRadius(args)
    \/ \E ratio \in RatioArgs : CallAspectRatio(ratio)
    \/ \E factor \in ResizeArgs : CallResize(factor)

SpecStyling == InitStyling /\ [][NextStyling]_vars

\* None, 100, '50%' and the keywords that size() is called with
SizeArgs ==
    {NoValue, Number(Px(100)), PercentStr(50), Keyword("auto"), Keyword("fit-content"),
     Keyword("fill-available"), Keyword("fit-background-image")}

CallSize(width, height) ==
    /\ ElementCall("size", <<width, height>>, size(eStyle, width, height))
    /\ UNCHANGED eResizeFactor
    /\ ElementFrame

NextSize == \E width \in SizeArgs, height \in SizeArgs : CallSize(width, height)

SpecSize == InitStyling /\ [][NextSize]_vars

\* The anchors place() is called with: the keywords of both axes, a word
\* that is no anchor, 20, '0%', '25%' and '100%'
PlaceAnchors ==
    {Keyword("left"), Keyword("center"), Keyword("right"), Keyword("top"), Keyword("bottom"),
     Keyword("middle"), Number(Px(20)), PercentStr(0), PercentStr(25), PercentStr(100)}

\* ... and '-10%'
SignedPlaceAnchors == PlaceAnchors \cup {PercentStr(0 - 10)}

\* x_offset and y_offset of place(), in hundredths of a pixel
PlaceOffsets == {0 - Px(10), 0, Px(50)}

CallPlace(horizontal, vertical, x_offset, y_offset) ==
    /\ ElementCall("place", <<horizontal, vertical, Number(x_offset), Number(y_offset)>>,
                   place(eStyle, horizontal, vertical, x_offset, y_offset))
    /\ UNCHANGED eResizeFactor
    /\ ElementFrame

CallTranslate(x, y) ==
    /\ ElementCall("translate", <<x, y>>, translate(eStyle, x, y))
    /\ UNCHANGED eResizeFactor
    /\ ElementFrame

\* place() and translate() called on one builder, any number of times
NextAnchors ==
    \/ \E horizontal \in SignedPlaceAnchors, vertical \in SignedPlaceAnchors :
          CallPlace(horizontal, vertical, 0, 0)
    \/ \E x \in {NoValue, Number(Px(10))}, y \in {NoValue, PercentStr(0 - 50)} : CallTranslate(x, y)

SpecAnchors == InitStyling /\ [][NextAnchors]_vars

\* WithPositionMixin._set_position(position_type, top, right, bottom, left)
_set_position(style, position_type, top, right, bottom, left) ==
    Returned([style EXCEPT !.position =
                 [type |-> position_type, top |-> top, right |-> right,
                  bottom |-> bottom, left |-> left]])

\* relative_position(), absolute_position() and fixed_position(): the
\* keyword arguments left out are None.
CallSetPosition(position_type, top, right, bottom, left) ==
    /\ ElementCall(position_type, <<top, right, bottom, left>>,
                   _set_position(eStyle, position_type, top, right, bottom, left))
    /\ UNCHANGED eResizeFactor
    /\ ElementFrame

\* The anchors of a place() that follows other positioning calls
RepeatedPlaceAnchors ==
    {Keyword("left"), Keyword("center"), Number(Px(20)), PercentStr(25)}

\* Any sequence of relative_position, absolute_position, fixed_position,
\* translate and place calls on one builder
NextPosition ==
    \/ \E position_type \in {"relative", "absolute", "fixed"},
          top \in {NoValue, Number(Px(10))}, right \in {NoValue, Number(Px(10))},
          bottom \in {NoValue, PercentStr(40)}, left \in {NoValue, PercentStr(40)} :
          CallSetPosition(position_type, top, right, bottom, left)
    \/ \E x \in {NoValue, Number(Px(10))}, y \in {NoValue, PercentStr(0 - 50)} : CallTranslate(x, y)
    \/ \E horizontal \in RepeatedPlaceAnchors, vertical \in RepeatedPlaceAnchors,
          x_offset \in {0, Px(50)}, y_offset \in {0} :
          CallPlace(horizontal, vertical, x_offset, y_offset)

SpecPosition == InitStyling /\ [][NextPosition]_vars

\* The computed styles of the node built from an element builder, the
\* element's content being of the size intrinsic.
NodeStyle(style, intrinsic) ==
    [DefaultLayoutStyle EXCEPT !.position = style.position,
                               !.transform = style.transform,
                               !.intrinsic = intrinsic]

\* Row(element).size(300, 200).padding(10) is rendered: the tree of the two
\* nodes is handed to compute_layout.
RenderPlaced(intrinsic) ==
    /\ lPc = "idle"
    /\ eCall.op = "place" /\ eCall.raised = "none"
    /\ lParent' = <<0, 1>>
    /\ lStyle' = <<[DefaultLayoutStyle EXCEPT !.width = SizeValue("absolute", Px(300)),
                                             !.height = SizeValue("absolute", Px(200)),
                                             !.padding = Px(10)],
                   NodeStyle(eStyle, intrinsic)>>
    /\ node_map' = {}
    /\ stStyle' = [n \in 1..2 |-> StretchableStyle]
    /\ stLayout' = [n \in 1..2 |-> NoBox]
    /\ layout_result' = [n \in 1..2 |-> NoLayoutResult]
    /\ origin' = [x |-> 0, y |-> 0]
    /\ lPc' = "start"
    /\ UNCHANGED <<styleVars, wrapVars, resolverVars, builderVars, elementVars, textNodeVars, runVars, rowVars>>

\* One place() on a new builder, then the render.
NextPlace ==
    \/ /\ eCall.op = "__init__"
       /\ \E horizontal \in PlaceAnchors, vertical \in PlaceAnchors,
             x_offset \in PlaceOffsets, y_offset \in PlaceOffsets :
             CallPlace(horizontal, vertical, x_offset, y_offset)
    \/ \E intrinsic \in {[x |-> Px(40), y |-> Px(20)], [x |-> Px(45), y |-> Px(25)]} :
          RenderPlaced(intrinsic)
    \/ NextLayout

SpecPlace == InitStyling /\ [][NextPlace]_vars

-----------------------------------------------------------------------------
(* Leaf nodes: the cache of a node and the measure functions of the layout
   engine. Widths of text are in whole pixels, one advance unit a pixel;
   the available width the solver passes is a length in hundredths. *)

\* The node of the style tree that is the measured leaf; its parent is node 1.
LeafId == 2

\* The cached properties and methods of a TextNode, and the group each is
\* declared with ("" for none).
CachedNames ==
    {"computed_styles", "shaped_lines", "text_bounds", "_compute_intrinsic_content_bounds",
     "content_width", "content_height", "content_bounds"}

GroupOf(name) == IF name = "computed_styles" THEN "" ELSE "bounds"

\* A cache that holds nothing.
EmptyCache == [names |-> {}, shaped_lines |-> <<>>, intrinsic |-> [width |-> 0, height |-> 0]]

\* The cached names of a group.
CachedOf(cache, group) == {name \in cache.names : GroupOf(name) = group}

\* Cacheable.clear_cache that forgets the cached properties of the group
\* and keeps its cached methods.
clear_cache_properties_only(cache, group) ==
    [cache EXCEPT !.names = {name \in @ : GroupOf(name) # group
                                          \/ name = "_compute_intrinsic_content_bounds"},
                  !.shaped_lines = IF GroupOf("shaped_lines") = group THEN <<>> ELSE @]

\* Cacheable.clear_cache(group): every value of the group is forgotten.
clear_cache(cache, group) ==
    [names |-> {name \in cache.names : GroupOf(name) # group},
     shaped_lines |-> IF GroupOf("shaped_lines") = group THEN <<>> ELSE cache.shaped_lines,
     intrinsic |-> IF GroupOf("_compute_intrinsic_content_bounds") = group
                   THEN EmptyCache.intrinsic ELSE cache.intrinsic]

\* Node._clear_bounds of a leaf: it has no children to clear first.
_clear_bounds(cache) == clear_cache(cache, "bounds")

\* TextNode._get_text_wrap_width that does not look at text_wrap.
_get_text_wrap_width_ignoring_style(text_wrap_width) ==
    IF tPositioned THEN NoMaxWidth
    ELSE IF tForcedWidth # NoMaxWidth THEN tForcedWidth
    ELSE text_wrap_width

\* TextNode._get_text_wrap_width, _text_wrap_width being text_wrap_width
_get_text_wrap_width(text_wrap_width) ==
    IF computed_styles(LeafId).text_wrap.value = "nowrap" THEN NoMaxWidth
    ELSE IF tPositioned THEN NoMaxWidth
    ELSE IF tForcedWidth # NoMaxWidth THEN tForcedWidth
    ELSE text_wrap_width

\* TextNode.set_text_wrap_width(width)
set_text_wrap_width(width) == width

\* The widest of the lines
RECURSIVE MaxLineWidth(_)
MaxLineWidth(lines) ==
    IF lines = <<>> THEN 0 ELSE Max(Head(lines).width, MaxLineWidth(Tail(lines)))

\* TextNode.shaped_lines: the cached lines, else the text shaped with the
\* wrap width.
shaped_lines(cache, text_wrap_width) ==
    IF "shaped_lines" \in cache.names THEN cache.shaped_lines
    ELSE shape(tText, _get_text_wrap_width(text_wrap_width))

\* The cache after compute_intrinsic_width() and compute_intrinsic_height()
\* of a TextNode: _compute_intrinsic_content_bounds reads text_bounds, which
\* reads shaped_lines; the lines are one pixel high each.
TextIntrinsicRead(cache, text_wrap_width) ==
    IF "_compute_intrinsic_content_bounds" \in cache.names THEN cache
    ELSE LET lines == shaped_lines(cache, text_wrap_width)
         IN [names |-> cache.names \cup {"computed_styles", "shaped_lines", "text_bounds",
                                         "_compute_intrinsic_content_bounds"},
             shaped_lines |-> lines,
             intrinsic |-> [width |-> MaxLineWidth(lines), height |-> Len(lines)]]

\* The names a read of a cached property leaves cached: its own and those of
\* the cached properties it reads.
ReadNames(name) ==
    CASE name = "computed_styles" -> {"computed_styles"}
      [] name = "shaped_lines" -> {"computed_styles", "shaped_lines"}
      [] name = "text_bounds" -> {"computed_styles", "shaped_lines", "text_bounds"}
      [] name = "content_width" -> {"computed_styles", "content_width"}
      [] name = "content_height" -> {"computed_styles", "content_height"}
      [] OTHER -> {"computed_styles", "content_width", "content_height", "content_bounds"}

\* SizeAvailableSpace.width: a scale and, for POINTS, a value in hundredths;
\* "none" for a width that is None.
Available(scale, value) == [scale |-> scale, value |-> value]

\* 0, 1.5, 2, 2.5 and MaxWrapWidth pixels, min-content, max-content, None
AvailableWidths ==
    {Available("points", v) : v \in {0, Px(1) + 50, Px(2), Px(2) + 50, Px(MaxWrapWidth)}}
        \cup {Available("min_content", 0), Available("max_content", 0), Available("none", 0)}

\* wrap_width of the text measure function: NoMaxWidth for None
wrap_width_of(available) ==
    IF available.scale = "points" THEN available.value
    ELSE IF available.scale = "min_content" THEN 0
    ELSE NoMaxWidth

\* RenderProps(is_svg, crop_mode, font_smoothing), and None
NoRenderProps == [set |-> FALSE, is_svg |-> FALSE, crop_mode |-> "", font_smoothing |-> ""]

RenderProps(is_svg, crop_mode, font_smoothing) ==
    [set |-> TRUE, is_svg |-> is_svg, crop_mode |-> crop_mode, font_smoothing |-> font_smoothing]

\* What a render pass gives a TextNode: set is FALSE for None.
NoRender ==
    [render_props |-> NoRenderProps,
     absolute_position |-> [set |-> FALSE, x |-> 0, y |-> 0],
     font_manager |-> [set |-> FALSE, font_smoothing |-> ""],
     text_shaper |-> [set |-> FALSE]]

NoCall == [op |-> "__init__", available |-> Available("none", 0), max_width |-> NoMaxWidth,
           lines |-> <<>>, size |-> [width |-> 0, height |-> 0]]

LeafFrame ==
    UNCHANGED <<styleVars, wrapVars, layoutVars, resolverVars, builderVars, elementVars, runVars, rowVars>>

\* The measure function of a TextNode.
MeasureText(available) ==
    /\ tKind = "text"
    /\ LET cleared == _clear_bounds(tCache)
           wrap_width == wrap_width_of(available)
           text_wrap_width == IF wrap_width # NoMaxWidth
                              THEN set_text_wrap_width(ceil(wrap_width))
                              ELSE set_text_wrap_width(NoMaxWidth)
           measured == TextIntrinsicRead(cleared, text_wrap_width)
       IN /\ tTextWrapWidth' = text_wrap_width
          /\ tCache' = _clear_bounds(measured)
          /\ tCall' = [op |-> "measure", available |-> available,
                       max_width |-> _get_text_wrap_width(text_wrap_width),
                       lines |-> measured.shaped_lines, size |-> measured.intrinsic]
    /\ UNCHANGED <<tKind, tText, tForcedWidth, tPositioned, tRender>>
    /\ LeafFrame

\* The size of the image of an ImageNode
ImageSize == [width |-> 4, height |-> 3]

\* The measure function of a leaf that is not a TextNode: the intrinsic size
\* of an ImageNode is read from its image and caches nothing of the group.
MeasureNonText(available) ==
    /\ tKind = "image"
    /\ LET cleared == _clear_bounds(tCache)
           measured == [cleared EXCEPT !.names = @ \cup {"computed_styles"}]
       IN /\ tCache' = _clear_bounds(measured)
          /\ tCall' = [op |-> "measure", available |-> available, max_width |-> NoMaxWidth,
                       lines |-> <<>>, size |-> ImageSize]
    /\ UNCHANGED <<tKind, tText, tTextWrapWidth, tForcedWidth, tPositioned, tRender>>
    /\ LeafFrame

\* computed_styles.padding of the leaf, in pixels
LeafPadding == IF computed_styles(LeafId).padding.value = "10" THEN 10 ELSE 0

\* TextNode._set_width_constraint(width_constraint), without a border or a
\* margin
SetWidthConstraint(width_constraint) ==
    /\ tKind = "text"
    /\ tTextWrapWidth' = IF width_constraint = NoMaxWidth THEN NoMaxWidth
                         ELSE Max(0, width_constraint - 2 * LeafPadding)
    /\ tCall' = [NoCall EXCEPT !.op = "_set_width_constraint"]
    /\ UNCHANGED <<tKind, tText, tForcedWidth, tPositioned, tCache, tRender>>
    /\ LeafFrame

\* A read of a cached property of the leaf between two measurements, as the
\* painters and the bounds do.
ReadCached(name) ==
    /\ tKind = "text" \/ name \notin {"shaped_lines", "text_bounds"}
    /\ LET lines == shaped_lines(tCache, tTextWrapWidth)
           shapes == "shaped_lines" \in ReadNames(name)
       IN /\ tCache' = [tCache EXCEPT !.names = @ \cup ReadNames(name),
                                      !.shaped_lines = IF shapes THEN lines ELSE @]
          /\ tCall' = [NoCall EXCEPT !.op = "read"]
    /\ UNCHANGED <<tKind, tText, tTextWrapWidth, tForcedWidth, tPositioned, tRender>>
    /\ LeafFrame

\* The texts of the measured node
NodeTexts == UNION {[1..k -> {"a", " ", "\n"}] : k \in 0..MaxNodeTextLen}

\* Column(leaf): text_wrap() called on the column, on the leaf, on both or
\* on neither; the leaf positioned or not, with a forced width or not.
InitLeaf ==
    /\ parent = [n \in StyleNodes |-> n - 1]
    /\ \E own \in {"unset", "normal", "nowrap"}, inherited \in {"unset", "nowrap"} :
          rawStyle = [n \in StyleNodes |->
                        IF n = LeafId /\ own # "unset"
                        THEN [Style EXCEPT !.text_wrap = StylePropertySet(@, own)]
                        ELSE IF n = 1 /\ inherited # "unset"
                        THEN [Style EXCEPT !.text_wrap = StylePropertySet(@, inherited)]
                        ELSE Style]
    /\ styleCached = {}
    /\ computedStyles = [n \in StyleNodes |-> Style]
    /\ tKind \in {"text", "image"}
    /\ tText \in IF tKind = "text" THEN NodeTexts ELSE {<<>>}
    /\ tTextWrapWidth = NoMaxWidth
    /\ tForcedWidth \in IF tKind = "text" THEN {NoMaxWidth, 2} ELSE {NoMaxWidth}
    /\ tPositioned \in IF tForcedWidth = NoMaxWidth THEN BOOLEAN ELSE {FALSE}
    /\ tCache = EmptyCache
    /\ tCall = NoCall
    /\ tRender = NoRender
    /\ WrapIdle
    /\ LayoutIdle
    /\ ResolverIdle
    /\ BuilderIdle
    /\ ElementIdle
    /\ RunsIdle
    /\ RowIdle

NextLeaf ==
    \/ \E available \in AvailableWidths : MeasureText(available)
    \/ \E available \in AvailableWidths : MeasureNonText(available)
    \/ \E width_constraint \in {NoMaxWidth, 1, 3} : SetWidthConstraint(width_constraint)
    \/ \E name \in {"shaped_lines", "content_bounds"} : ReadCached(name)

SpecLeaf == InitLeaf /\ [][NextLeaf]_vars

-----------------------------------------------------------------------------
(* Preparing a tree for rendering: Row(Text), the row of auto width *)

\* The transient state of the text node
TextNodeState ==
    [render |-> tRender, forced_width |-> tForcedWidth,
     text_wrap_width |-> tTextWrapWidth, cache |-> tCache]

\* TextNode.clear that leaves _text_wrap_width as it is.
clear_keeping_text_wrap_width(node) ==
    [render |-> NoRender,
     forced_width |-> NoMaxWidth,
     text_wrap_width |-> node.text_wrap_width,
     cache |-> clear_cache(clear_cache(node.cache, "bounds"), "")]

\* TextNode.clear: Node.clear, then the font manager, the text shaper and the
\* wrap width; clear_cache() without a group forgets every group.
clear(node) ==
    [render |-> NoRender,
     forced_width |-> NoMaxWidth,
     text_wrap_width |-> NoMaxWidth,
     cache |-> clear_cache(clear_cache(node.cache, "bounds"), "")]

\* TextNode._init_render_dependencies(render_props)
_init_render_dependencies(render, render_props) ==
    [render EXCEPT !.render_props = render_props,
                   !.font_manager = [set |-> TRUE, font_smoothing |-> render_props.font_smoothing],
                   !.text_shaper = [set |-> TRUE]]

\* RowNode._set_width_constraint(None) of the root: None is handed to the
\* children that have no position, the others are not visited.
RowSetWidthConstraintNone(text_wrap_width) ==
    IF tPositioned THEN text_wrap_width ELSE NoMaxWidth

\* Node._calculate_bounds of the text node on the cache emptied by
\* _clear_bounds: every bound is read, and cached with what it reads.
_calculate_bounds(cache, text_wrap_width) ==
    [TextIntrinsicRead(_clear_bounds(cache), text_wrap_width) EXCEPT !.names = CachedNames]

\* Node.prepare_tree_for_rendering(render_props) on the row, as it acts on
\* the text node; the call keeps the wrap width it found in max_width.
PrepareTreeForRendering(render_props) ==
    /\ tKind = "text"
    /\ UNCHANGED <<tKind, tText, tPositioned>>
    /\ LeafFrame
    /\ LET cleared == clear(TextNodeState)
       IN /\ tForcedWidth' = cleared.forced_width
          /\ tTextWrapWidth' = RowSetWidthConstraintNone(cleared.text_wrap_width)
          /\ tRender' = [_init_render_dependencies(cleared.render, render_props)
                           EXCEPT !.absolute_position = [set |-> TRUE, x |-> 0, y |-> 0]]
          /\ \E cache \in {cleared.cache} :
                tCache' = (_calculate_bounds(cache, tTextWrapWidth))'
    /\ tCall' = [NoCall EXCEPT !.op = "prepare_tree_for_rendering", !.max_width = tTextWrapWidth]

\* The render props of Renderer.render_as_bitmap and render_as_svg
RenderPropsOfRenderer ==
    {RenderProps(FALSE, "none", "standard"), RenderProps(TRUE, "content-box", "subpixel")}

\* Row(Text): a row of auto width and a text node just constructed, with
\* text_wrap('nowrap') or not, positioned or not.
InitPrepare ==
    /\ parent = [n \in StyleNodes |-> n - 1]
    /\ \E own \in {"unset", "nowrap"} :
          rawStyle = [n \in StyleNodes |->
                        IF n = LeafId /\ own # "unset"
                        THEN [Style EXCEPT !.text_wrap = StylePropertySet(@, own)]
                        ELSE Style]
    /\ styleCached = {}
    /\ computedStyles = [n \in StyleNodes |-> Style]
    /\ tKind = "text"
    /\ tText \in {<<"a">>, <<"a", " ", "a">>}
    /\ tTextWrapWidth = NoMaxWidth
    /\ tForcedWidth = NoMaxWidth
    /\ tPositioned \in BOOLEAN
    /\ tCache = EmptyCache
    /\ tCall = NoCall
    /\ tRender = NoRender
    /\ WrapIdle
    /\ LayoutIdle
    /\ ResolverIdle
    /\ BuilderIdle
    /\ ElementIdle
    /\ RunsIdle
    /\ RowIdle

NextPrepare ==
    \/ \E render_props \in RenderPropsOfRenderer : PrepareTreeForRendering(render_props)
    \/ \E available \in AvailableWidths : MeasureText(available)
    \/ \E width_constraint \in {NoMaxWidth, 1, 3} : SetWidthConstraint(width_constraint)
    \/ \E name \in {"shaped_lines", "content_bounds"} : ReadCached(name)

SpecPrepare == InitPrepare /\ [][NextPrepare]_vars

-----------------------------------------------------------------------------
(* C1 *)

\* C1: for every node whose style is computed and every property, the
\* computed value is the node's raw value when the node set it; otherwise the
\* parent's computed value when the property is inheritable and the node has
\* a parent; otherwise the declared default.  A non-inheritable property
\* never takes the parent's value.
C1_ComputedStyleRule ==
    \A n \in styleCached : \A f \in FieldNames :
        computedStyles[n][f].value =
            IF rawStyle[n][f].was_set THEN rawStyle[n][f].value
            ELSE IF is_inheritable(f) /\ parent[n] # 0
                 THEN computedStyles[parent[n]][f].value
            ELSE DefaultValue(f)

\* A grandchild that set nothing has the text_wrap its grandparent set,
\* through a parent that set nothing either, and keeps the default padding
\* although its parent set another.
C1_Witness ==
    \E n \in styleCached :
        /\ parent[n] # 0 /\ parent[parent[n]] # 0
        /\ ~rawStyle[n]["text_wrap"].was_set
        /\ ~rawStyle[parent[n]]["text_wrap"].was_set
        /\ rawStyle[parent[parent[n]]]["text_wrap"] = StylePropertySet(Style["text_wrap"], "nowrap")
        /\ computedStyles[n]["text_wrap"].value = "nowrap"
        /\ ~rawStyle[n]["padding"].was_set
        /\ rawStyle[parent[n]]["padding"].value = "10"
        /\ computedStyles[n]["padding"].value = "0"

-----------------------------------------------------------------------------
(* C5 *)

\* The token the loop of _wrap_line_to_width is about to consume.
NextToken == Tokenize(wText)[wIdx + 1]

\* C5: in every iteration of the token loop a pure-whitespace token is
\* appended to the current line, also when it makes the line exceed
\* max_width; an iteration flushes the current line only for a token that is
\* not whitespace and makes current_width + token_width exceed max_width.
C5_WhitespaceAlwaysAppended ==
    [][(wPc = "loop" /\ wIdx' = wIdx + 1) =>
          /\ IsSpace(NextToken[1]) =>
                /\ wCurrentLine' = Append(wCurrentLine, NextToken)
                /\ wWrappedLines' = wWrappedLines
          /\ wWrappedLines' # wWrappedLines =>
                /\ ~IsSpace(NextToken[1])
                /\ wCurrentWidth + measureText("primary", NextToken) > wMaxWidth]_vars

-----------------------------------------------------------------------------
(* C6 *)

\* C6: when the wrap of a physical line returns one line, that line is the
\* input text unchanged; when it returns two or more, none of them begins or
\* ends with whitespace.
C6_TrimOnlyWhenWrapped ==
    wPc = "done" =>
        /\ Len(wResult) = 1 => wResult[1] = wText
        /\ Len(wResult) >= 2 =>
              \A i \in 1..Len(wResult) :
                 wResult[i] # <<>> =>
                    ~IsSpace(wResult[i][1]) /\ ~IsSpace(wResult[i][Len(wResult[i])])

\* A text that begins with whitespace was wrapped into several lines, and
\* its first line lost the whitespace.
C6_Witness ==
    /\ wPc = "done"
    /\ IsSpace(wText[1])
    /\ Len(wResult) >= 2
    /\ wResult[1] # <<>>

-----------------------------------------------------------------------------
(* C7 *)

\* C7: every line that shaping the text at the width produced, shaped again
\* at any width from that line's own measured width on, comes back as that
\* one line.
C7_RewrapIsIdentity ==
    wPc = "done" =>
        LET lines == shape(wText, wMaxWidth)
        IN \A i \in 1..Len(lines) :
              \A w \in lines[i].width..(lines[i].width + MaxWrapWidth) :
                 shape(LineText(lines[i].runs), w) = <<lines[i]>>

-----------------------------------------------------------------------------
(* C2 *)

\* The nodes with fixed_position(top, left) in pixels.
FixedNodes ==
    {n \in LayoutNodes : /\ lStyle[n].position.type = "fixed"
                         /\ lStyle[n].position.left.kind = "number"
                         /\ lStyle[n].position.top.kind = "number"}

\* C2: when layout has ended, every node with a fixed position and insets
\* (top, left) has its box origin at the canvas origin plus (left, top), and
\* the correction stored for it is the signed delta between the canvas origin
\* and the origin of its parent's padding box.
C2_FixedAtCanvasOrigin ==
    lPc = "done" =>
        \A n \in FixedNodes :
            LET box == get_box(stLayout[n], stStyle[n], "MARGIN")
                parent_box == get_box(stLayout[lParent[n]], stStyle[lParent[n]], "PADDING")
            IN /\ box.pos.x + layout_result[n].offset.x = origin.x + lStyle[n].position.left.v
               /\ box.pos.y + layout_result[n].offset.y = origin.y + lStyle[n].position.top.v
               /\ layout_result[n].offset.x = origin.x - parent_box.pos.x
               /\ layout_result[n].offset.y = origin.y - parent_box.pos.y

-----------------------------------------------------------------------------
(* C3 *)

\* C3: once the solver has run, every child with an absolute or fixed
\* position (place() sets a fixed one) was handed to it as ABSOLUTE, and the
\* box of every node outside that child's subtree, so of every sibling and of
\* the parent, is the box the solver computes for the tree without the child.
C3_PositionedOutOfFlow ==
    lPc \in {"solved", "linked", "fixed", "done"} =>
        \A c \in LayoutNodes :
            lStyle[c].position.type \in {"absolute", "fixed"} =>
                /\ stStyle[c].position = "ABSOLUTE"
                /\ LET removed == SolverComputeLayout(
                                     [StretchableTree EXCEPT !.present = node_map \ Subtree(c)])
                   IN \A n \in LayoutNodes \ Subtree(c) : stLayout[n] = removed[n]

-----------------------------------------------------------------------------
(* C4 *)

\* C4: when layout has ended, the border box of the element with
\* absolute_position(top="50%", left="50%") and translate(x="-50%", y="-50%")
\* has its centre at (150, 100) from the origin of its 300x200 parent's box,
\* whatever the element's size.
C4_CentredInParent ==
    lPc = "done" =>
        LET element == get_bounds(3, "BORDER")
            box == get_bounds(2, "PADDING")
        IN /\ element.left + element.right = 2 * (box.left + 150)
           /\ element.top + element.bottom = 2 * (box.top + 100)

\* Layout has ended for an element of odd width and even height, moved back
\* by half its size, in a parent that is not at the canvas origin.
C4_Witness ==
    /\ lPc = "done"
    /\ lParent = <<0, 1, 2>>
    /\ lStyle[3].transform.set
    /\ stLayout[3].size.x = Px(5)
    /\ stLayout[3].size.y = Px(4)
    /\ layout_result[3].offset = [x |-> 0 - 250, y |-> 0 - Px(2)]
    /\ get_bounds(2, "PADDING").left > 0

-----------------------------------------------------------------------------
(* C9 *)

\* The min or max constraint of node n on an axis, as a length; Indefinite
\* when none is set or it is a percentage of a size that is not fixed.
ConstraintOf(which, n, ax) ==
    LET value == IF which = "min"
                 THEN (IF ax = "x" THEN lStyle[n].min_width ELSE lStyle[n].min_height)
                 ELSE (IF ax = "x" THEN lStyle[n].max_width ELSE lStyle[n].max_height)
    IN CASE value.mode = "absolute" -> value.value
         [] value.mode = "percent" ->
               LET p == lParent[n]
                   fixed == IF ax = "x" THEN lStyle[p].width ELSE lStyle[p].height
               IN IF p # 0 /\ fixed.mode = "absolute"
                  THEN ((fixed.value - 2 * (lStyle[p].padding + lStyle[p].border)) * value.value) \div 100
                  ELSE Indefinite
         [] OTHER -> Indefinite

-----------------------------------------------------------------------------
(* C8 *)

\* The cases of C8: n has a percent size on ax and has no parent, or a parent
\* whose size on ax is unset, auto or fit-content.
PercentWithoutBasis(n, ax) ==
    /\ AxisStyle(n, ax).mode = "percent"
    /\ \/ lParent[n] = 0
       \/ AxisStyle(lParent[n], ax).mode \in {"none", "auto", "fit-content"}

-----------------------------------------------------------------------------
(* C10 *)

\* The places a container stores a child in: <<container, index>>.
Slots == {sl \in (1..bNext) \X (1..2) : sl[2] \in DOMAIN bChildren[sl[1]]}

StoredChild(sl) == bChildren[sl[1]][sl[2]]

\* C10: a step that changes the style of a builder the caller holds changes
\* the style of no child a container stores, and a step that changes the
\* style of one stored child changes the style of no other stored child: so
\* of neither copy of a builder passed twice.
C10_ChildrenAreCopies ==
    [][\A sl \in Slots :
          /\ \A c \in bHandles :
                bStyle'[c] # bStyle[c] => bStyle'[StoredChild(sl)] = bStyle[StoredChild(sl)]
          /\ \A other \in Slots \ {sl} :
                bStyle'[StoredChild(other)] # bStyle[StoredChild(other)]
                    => bStyle'[StoredChild(sl)] = bStyle[StoredChild(sl)]]_vars

\* A builder was passed twice to one container and styled afterwards, and so
\* was one of its two stored copies: the three styles differ.
C10_Witness ==
    \E r \in bHandles, c \in bHandles :
        /\ Len(bChildren[r]) = 2
        /\ bCopyOf[bChildren[r][1]] = c
        /\ bCopyOf[bChildren[r][2]] = c
        /\ bStyle[c] = 1
        /\ bStyle[bChildren[r][1]] = 2
        /\ bStyle[bChildren[r][2]] = 0

-----------------------------------------------------------------------------
(* C11 *)

\* The children of n that are in normal flow: those without a position and
\* those with a relative one.
InFlow(n) ==
    SelectSeq(children(n), LAMBDA c : lStyle[c].position.type \in {"none", "relative"})

\* C11, on Node's own size resolution: a child with relative_position keeps
\* its slot, so the content-driven width and height read for its parent are
\* those of all the parent's in-flow children, the relative child included,
\* as they would be if the child had no position set.
C11_RelativeKeepsItsSlot ==
    \A n \in LayoutNodes : \A ax \in Axes :
        ( /\ children(n) # <<>>
          /\ AxisStyle(n, ax).mode \in {"none", "auto", "fit-content"}
          /\ forced_size[n][ax] = Indefinite
          /\ resolved[n][ax].status = "size" )
            => Size(resolved[n][ax].v) = ChildrenMarginSizes(InFlow(n), ax, 0, MaxRecursion)

\* C11, on the solver: a child with relative_position is handed to the solver
\* as RELATIVE, every node outside its subtree has the box it has when the
\* child has no position, and the child's own box is that box displaced by
\* its insets.
C11_RelativeInFlowInSolver ==
    lPc \in {"solved", "linked", "fixed", "done"} =>
        \A c \in LayoutNodes :
            lStyle[c].position.type = "relative" =>
                /\ stStyle[c].position = "RELATIVE"
                /\ LET unset == SolverComputeLayout(
                                   [StretchableTree EXCEPT
                                       !.style[c] = _create_base_style([lStyle[c] EXCEPT !.position = NoPosition])])
                   IN /\ \A n \in LayoutNodes \ Subtree(c) : stLayout[n] = unset[n]
                      /\ stLayout[c].size = unset[c].size
                      /\ stLayout[c].pos.x = unset[c].pos.x + lStyle[c].position.left.v
                      /\ stLayout[c].pos.y = unset[c].pos.y + lStyle[c].position.top.v

-----------------------------------------------------------------------------
(* C14 *)

\* The calls C14 names with the arguments it names: a number of arguments
\* other than 1, 2 or 4, a zero, negative or unparsable ratio, a zero or
\* negative factor.
BadCall(call) ==
    \/ call.op \in {"padding", "margin", "border_radius"} /\ Len(call.args) \notin {1, 2, 4}
    \/ /\ call.op = "aspect_ratio"
       /\ call.args[1] \in {RatioNumber(0), RatioNumber(0 - 1), RatioStr(1, 0), RatioStr(0, 5),
                            RatioStr(0 - 1, 2), NumberStr(0), BadStr("abc"), BadStr("1/2/3")}
    \/ call.op = "resize" /\ call.args[1] <= 0

\* C14: a call of padding(), margin() or border_radius() with a number of
\* arguments other than 1, 2 or 4, of aspect_ratio() with a zero, negative or
\* unparsable ratio, or of resize() with a zero or negative factor raises,
\* and a call that raises leaves the style and the resize factor as they
\* were.
C14_BadCallRaisesAndChangesNothing ==
    [][/\ BadCall(eCall') => eCall'.raised # "none"
       /\ eCall'.raised # "none" => (eStyle' = eStyle /\ eResizeFactor' = eResizeFactor)]_vars

\* A builder with padding, aspect ratio and resize factor set, on which
\* resize(0) has just raised.
C14_Witness ==
    /\ eCall.op = "resize" /\ eCall.args[1] = 0 /\ eCall.raised = "ValueError"
    /\ eResizeFactor = 150
    /\ eStyle.padding = <<Px(10), Px(20), Px(10), Px(20)>>
    /\ eStyle.aspect_ratio = [set |-> TRUE, num |-> 16, den |-> 9]

-----------------------------------------------------------------------------
(* C12 *)

\* C12: size(width='fill-available') and size(height='fill-available') are
\* accepted by the builder, and the node goes to the solver with an auto
\* size on that axis and a flex-grow of 1.
C12_FillAvailableAccepted ==
    (eCall.op = "size" /\ Keyword("fill-available") \in {eCall.args[1], eCall.args[2]})
        => /\ eCall.raised = "none"
           /\ eCall.args[1] = Keyword("fill-available")
                => /\ eStyle.width.mode = "fill-available"
                   /\ _map_size(DefaultLayoutStyle, eStyle.width, eStyle.height).x = AUTO
           /\ eCall.args[2] = Keyword("fill-available")
                => /\ eStyle.height.mode = "fill-available"
                   /\ _map_size(DefaultLayoutStyle, eStyle.width, eStyle.height).y = AUTO
           /\ _get_flex_grow(eStyle.width, eStyle.height) = 1

\* StyleMapper's half of C12: a style whose width or height is
\* fill-available is mapped to an auto size on that axis and flex-grow 1.
C12_FillAvailableMapsToGrow ==
    lPc \in {"solved", "linked", "fixed", "done"} => \A n \in DOMAIN stStyle :
        /\ lStyle[n].width.mode = "fill-available" => (stStyle[n].size.x = AUTO /\ stStyle[n].flex_grow = 1)
        /\ lStyle[n].height.mode = "fill-available" => (stStyle[n].size.y = AUTO /\ stStyle[n].flex_grow = 1)

-----------------------------------------------------------------------------
(* C13 *)

\* The nodes sized fit-background-image on axis ax that have no background
\* image, or one that get_skia_image() does not load.
FitsMissingImage(ax) ==
    {n \in 1..Len(lStyle) :
        AxisStyle(n, ax).mode = "fit-background-image" /\ ~lStyle[n].background_image.set}

\* C13: a node sized fit-background-image that has no background image, or
\* one that cannot be loaded, makes layout fail with an error: its tree is
\* never handed to the solver with that size silently auto.
C13_FitBackgroundImageFails ==
    \A ax \in Axes : FitsMissingImage(ax) # {} => lPc = "start"

\* SizeResolver's half of C13: reading the content size of such a node
\* raises ValueError.
C13_ResolverRaises ==
    \A ax \in Axes : \A n \in FitsMissingImage(ax) :
        (forced_size[n][ax] = Indefinite /\ resolved[n][ax].status # "unread")
            => resolved[n][ax].status = "ValueError"

-----------------------------------------------------------------------------
(* C15 *)

\* The computed text_wrap of the leaf is nowrap, its own or its parent's.
IsNowrap == computed_styles(LeafId).text_wrap.value = "nowrap"

\* The lines are the newline-separated segments of the text, one line each.
OnePerSegment(lines) ==
    /\ Len(lines) = Len(SplitLines(tText))
    /\ \A i \in 1..Len(lines) : LineText(lines[i].runs) = SplitLines(tText)[i]

\* C15: a text node whose computed text_wrap is nowrap, set on it or
\* inherited, is never wrapped: whatever wrap width a width constraint or a
\* measure function call supplied, the lines shaped are one per
\* newline-separated segment of the text.
C15_NowrapIsNeverWrapped ==
    (tKind = "text" /\ IsNowrap)
        => /\ tCall.op = "measure" => OnePerSegment(tCall.lines)
           /\ "shaped_lines" \in tCache.names => OnePerSegment(tCache.shaped_lines)

\* "a a" under an inherited nowrap, measured with 2.5 pixels available,
\* where wrapping would give two lines.
C15_Witness ==
    /\ tKind = "text" /\ IsNowrap /\ ~is_explicit(rawStyle[LeafId], "text_wrap")
    /\ tText = <<"a", " ", "a">>
    /\ tCall.op = "measure" /\ tCall.available = Available("points", Px(2) + 50)
    /\ tTextWrapWidth = 3
    /\ Len(tCall.lines) = 1
    /\ Len(shape(tText, 3)) = 2

-----------------------------------------------------------------------------
(* C19 *)

\* C19: when the measure function of a leaf returns, for a text node and
\* for any other leaf, whatever the available space and whatever was called
\* before, the node holds no cached value of the group 'bounds'.
C19_MeasureLeavesNoBounds ==
    tCall.op = "measure" => CachedOf(tCache, "bounds") = {}

\* A text node measured after its properties were read: lines were shaped
\* in the call and the computed styles are still cached.
C19_Witness ==
    /\ tKind = "text" /\ tCall.op = "measure"
    /\ Len(tCall.lines) = 2
    /\ tCache.names = {"computed_styles"}

-----------------------------------------------------------------------------
(* C20 *)

\* The wrap width C20 gives for an available width: for an exact width the
\* least whole number of pixels that is not below it.
WrapWidthFor(available) ==
    CASE available.scale = "points" ->
            CHOOSE k \in 0..(MaxWrapWidth + 1) : Px(k) >= available.value /\ Px(k - 1) < available.value
      [] available.scale = "min_content" -> 0
      [] OTHER -> NoMaxWidth

\* C20: the measure function of a text node shapes the text with wrap
\* width ceil(w) when the available width is the exact value w, with 0 when
\* it is min-content, and with no wrap width otherwise.
C20_ShapedWithAvailableWidth ==
    (tKind = "text" /\ tCall.op = "measure") => tCall.max_width = WrapWidthFor(tCall.available)

\* C20 as the code has it: the measure function sets the node's wrap width
\* from the available width of that call alone, and the text is shaped with
\* it when the node's text_wrap is not nowrap and the node has neither a
\* position nor a forced width; otherwise it is shaped with no wrap width,
\* or with the forced width.
C20_WrapWidthSetFromAvailableWidth ==
    (tKind = "text" /\ tCall.op = "measure")
        => /\ tTextWrapWidth = WrapWidthFor(tCall.available)
           /\ tCall.max_width = IF IsNowrap \/ tPositioned THEN NoMaxWidth
                                ELSE IF tForcedWidth # NoMaxWidth THEN tForcedWidth
                                ELSE WrapWidthFor(tCall.available)

\* A wrapping text node measured with 1.5 pixels available: shaped with a
\* wrap width of 2, into more than one line.
C20_Witness ==
    /\ tKind = "text" /\ ~IsNowrap /\ ~tPositioned /\ tForcedWidth = NoMaxWidth
    /\ tText = <<"a", " ", "a">>
    /\ tCall.op = "measure" /\ tCall.available = Available("points", Px(1) + 50)
    /\ tCall.max_width = 2
    /\ Len(tCall.lines) > 1

-----------------------------------------------------------------------------
(* C17 *)

\* What C17 says place() stores for an anchor on one axis, start and end
\* being the keywords of the axis: the inset of the start side, the inset of
\* the end side and the translate.
StoredFor(anchor, start, end) ==
    LET stored(s, e, t) == [start |-> s, end |-> e, translate |-> t]
    IN CASE anchor \in {Keyword(start), PercentStr(0)} -> stored(Number(0), NoValue, NoValue)
         [] anchor \in {Keyword(end), PercentStr(100)} -> stored(NoValue, Number(0), NoValue)
         [] anchor = Keyword("center") -> stored(PercentStr(50), NoValue, PercentStr(0 - 50))
         [] anchor.kind = "number" -> stored(anchor, NoValue, NoValue)
         [] OTHER -> stored(anchor, NoValue, PercentStr(0 - anchor.v))

\* The anchors of an axis: its keywords, numbers and percentages.
IsAnchor(anchor, start, end) ==
    anchor.kind \in {start, "center", end, "number", "percent_str"}

\* C17: place(h, v) stores the position type FIXED and, on each axis, for
\* 'left'/'top' or '0%' the start inset 0 and no translate, for
\* 'right'/'bottom' or '100%' the end inset 0 and no translate, for 'center'
\* the start inset '50%' and the translate '-50%', for a number n the start
\* inset n and no translate, for any other 'X%' the start inset 'X%' and the
\* translate minus X percent; any other string raises ValueError.
C17_PlaceStoresAnchors ==
    (eCall.op = "place" /\ eCall.args[3] = Number(0) /\ eCall.args[4] = Number(0))
        => IF IsAnchor(eCall.args[1], "left", "right") /\ IsAnchor(eCall.args[2], "top", "bottom")
           THEN LET h == StoredFor(eCall.args[1], "left", "right")
                    v == StoredFor(eCall.args[2], "top", "bottom")
                IN /\ eCall.raised = "none"
                   /\ eStyle.position = [type |-> "fixed", left |-> h.start, right |-> h.end,
                                         top |-> v.start, bottom |-> v.end]
                   /\ eStyle.transform.translate_x = h.translate
                   /\ eStyle.transform.translate_y = v.translate
           ELSE eCall.raised = "ValueError"

\* C17 for a place() that is the first call on its builder and whose
\* percentages are not negative, as in SpecPlace.
C17_FirstPlaceStoresAnchors ==
    (eCall.op = "place" /\ eCall.args[3] = Number(0) /\ eCall.args[4] = Number(0))
        => IF IsAnchor(eCall.args[1], "left", "right") /\ IsAnchor(eCall.args[2], "top", "bottom")
           THEN LET h == StoredFor(eCall.args[1], "left", "right")
                    v == StoredFor(eCall.args[2], "top", "bottom")
                IN /\ eCall.raised = "none"
                   /\ eStyle.position = [type |-> "fixed", left |-> h.start, right |-> h.end,
                                         top |-> v.start, bottom |-> v.end]
                   /\ eStyle.transform.translate_x = h.translate
                   /\ eStyle.transform.translate_y = v.translate
           ELSE eCall.raised = "ValueError"

-----------------------------------------------------------------------------
(* C16 *)

\* Where the element ends: the position the solver gave it plus the offset
\* of its layout result.
FinalPosition == [ax \in Axes |-> stLayout[2].pos[ax] + layout_result[2].offset[ax]]

\* Where compute_layout puts the element of the rendered tree when its
\* computed styles are style.
PlacedAt(style) ==
    LET mapped == [stStyle EXCEPT ![2] = _create_base_style(style)]
        boxes == SolverComputeLayout([parent |-> lParent, style |-> mapped, present |-> node_map])
        border_box == get_box(boxes[2], mapped[2], "BORDER")
        translate_of(ax) == IF ax = "x" THEN style.transform.translate_x
                            ELSE style.transform.translate_y
    IN [ax \in Axes |->
          boxes[2].pos[ax]
            + (IF style.position.type = "fixed" THEN FixedOffset(1, ax) ELSE 0)
            + (IF style.transform.set
               THEN _compute_translate_offset(translate_of(ax), border_box.size[ax]) ELSE 0)]

\* The layout of the rendered tree has ended; h, v, a and b are the
\* arguments of the place() call.
PlacedAndLaidOut == lPc = "done" /\ eCall.op = "place"

\* C16: for every anchor pair (h, v) and every offset (a, b), the element
\* placed with place(h, v, x_offset=a, y_offset=b) ends where the element
\* placed with place(h, v) ends, shifted by exactly (a, b).
C16_OffsetShiftsThePlacedElement ==
    PlacedAndLaidOut =>
        LET unshifted == PlacedAt(NodeStyle(place(ElementStyle, eCall.args[1], eCall.args[2], 0, 0).style,
                                            lStyle[2].intrinsic))
        IN /\ FinalPosition.x = unshifted.x + eCall.args[3].v
           /\ FinalPosition.y = unshifted.y + eCall.args[4].v

\* PlacedAt gives the position compute_layout gave.
C16_PlacedAtIsTheLayout ==
    PlacedAndLaidOut => FinalPosition = PlacedAt(lStyle[2])

\* C16 for the anchors that store no percentage translate.
C16_OffsetShiftsWithoutPercentTranslate ==
    (PlacedAndLaidOut /\ \A i \in 1..2 : StoredFor(eCall.args[i], "", "").translate.kind = "none")
        => LET unshifted == PlacedAt(NodeStyle(place(ElementStyle, eCall.args[1], eCall.args[2], 0, 0).style,
                                               lStyle[2].intrinsic))
           IN /\ FinalPosition.x = unshifted.x + eCall.args[3].v
              /\ FinalPosition.y = unshifted.y + eCall.args[4].v

-----------------------------------------------------------------------------
(* C18 *)

\* The steps of compute_layout in the order of its body, and the next call.
StepOrder ==
    {<<"start", "built">>, <<"built", "solved">>, <<"solved", "linked">>,
     <<"linked", "fixed">>, <<"fixed", "done">>, <<"done", "start">>}

\* C18: within every compute_layout call the node map is emptied and the
\* solver tree built from the tree given, the solver runs once, the results
\* are linked back, the fixed positions corrected and then the translates
\* applied: the translate pass comes only after the fixed correction, which
\* comes only after the link-back, and the solver's boxes are written by the
\* one solve of the call only.
C18_StepsOfComputeLayoutInOrder ==
    [][/\ lPc' # lPc => <<lPc, lPc'>> \in StepOrder
       /\ lPc' = "built" => node_map' = LayoutNodes
       /\ stLayout' # stLayout => (lPc = "built" /\ lPc' = "solved")
       /\ layout_result' # layout_result => lPc \in {"solved", "linked", "fixed"}
       /\ (lPc = "fixed" /\ lPc' = "done") =>
             layout_result' = _apply_translate_transform(
                                 _fix_canvas_relative_positions(
                                    [n \in LayoutNodes |-> LayoutResult(0, 0)],
                                    Root, children(Root), 0, 0),
                                 Root, children(Root), 0, 0)]_vars

\* A call has ended for a tree with a fixed node that has a translate: the
\* node is moved by both passes.
C18_Witness ==
    /\ lPc = "done"
    /\ node_map = LayoutNodes
    /\ \E n \in LayoutNodes :
          /\ lStyle[n].position.type = "fixed" /\ lStyle[n].transform.set
          /\ layout_result[n].offset.y = FixedOffset(lParent[n], "y") + Px(5)
          /\ FixedOffset(lParent[n], "y") # 0

-----------------------------------------------------------------------------
(* C21 *)

IsFixed(n) == lStyle[n].position.type = "fixed"

\* The nearest fixed node among n and its ancestors below the root, 0 when
\* there is none.
RECURSIVE NearestFixed(_)
NearestFixed(n) ==
    IF n = Root THEN 0
    ELSE IF IsFixed(n) THEN n
    ELSE NearestFixed(lParent[n])

\* The correction of the fixed node n: minus the distance between the canvas
\* origin and the origin of its parent's padding box as solved.
FixedCorrection(n, ax) ==
    LET parent_box == get_box(stLayout[lParent[n]], stStyle[lParent[n]], "PADDING")
        distance == origin[ax] - parent_box.pos[ax]
    IN IF distance < 0 THEN distance ELSE 0 - distance

\* Every non-fixed node below a fixed node carries the stored offset of the
\* nearest fixed node above it.
FixedOffsetCarried ==
    \A n \in LayoutNodes \ {Root} :
        (~IsFixed(n) /\ NearestFixed(n) # 0) =>
            layout_result[n].offset = layout_result[NearestFixed(n)].offset

-----------------------------------------------------------------------------
(* C22 *)

\* The translate of node n along ax in hundredths of a pixel: a number as
\* given, a percentage taken of the node's own border-box width or height.
TranslatePixels(n, ax) ==
    LET value == IF ax = "x" THEN lStyle[n].transform.translate_x
                 ELSE lStyle[n].transform.translate_y
        border_box == get_box(stLayout[n], stStyle[n], "BORDER")
    IN IF ~lStyle[n].transform.set THEN 0
       ELSE IF value.kind = "number" THEN value.v
       ELSE IF value.kind = "percent_str" THEN (border_box.size[ax] \div 100) * value.v
       ELSE 0

\* The sum of the translates of n and of its ancestors below the root.
RECURSIVE TranslateSum(_, _)
TranslateSum(n, ax) ==
    IF n = Root THEN 0
    ELSE TranslatePixels(n, ax) + TranslateSum(lParent[n], ax)

\* C22: the transform pass leaves every node below the root with the stored
\* offset it had after the fixed-position pass plus the sum, over the node and
\* its ancestors below the root that have a transform, of that node's
\* translate in pixels, a percentage being taken of that node's own
\* border-box width (x) or height (y).
C22_TranslateAddsTheSumOverAncestors ==
    [][(lPc = "fixed" /\ lPc' = "done") =>
          \A n \in LayoutNodes \ {Root} : \A ax \in Axes :
              layout_result'[n].offset[ax] = layout_result[n].offset[ax] + TranslateSum(n, ax)]_vars

\* The transform pass has run on Row(Row(Row(Text))) with a translate of
\* (-50%, 5) on both inner rows: the outer row is moved by 5 down, the inner
\* row and the text by 10, and the text further left than the outer row.
C22_Witness ==
    /\ lPc = "done"
    /\ lParent = <<0, 1, 2, 3>>
    /\ \A n \in 2..4 : ~IsFixed(n)
    /\ lStyle[2].transform.set /\ lStyle[3].transform.set /\ ~lStyle[4].transform.set
    /\ layout_result[2].offset.y = Px(5)
    /\ layout_result[3].offset.y = Px(10)
    /\ layout_result[4].offset.y = Px(10)
    /\ layout_result[4].offset.x < layout_result[2].offset.x
    /\ layout_result[2].offset.x < 0

-----------------------------------------------------------------------------
(* C24 *)

\* A call of compute_layout on a tree that an earlier call has laid out: the
\* results of the earlier call are still stored.
SecondCall == layout_result[Root].linked /\ lPc \in {"start", "built", "solved"}

\* The fixed-position pass and the transform pass applied to the results lr.
BothPasses(lr) ==
    _apply_translate_transform(
        _fix_canvas_relative_positions(lr, Root, children(Root), 0, 0),
        Root, children(Root), 0, 0)

\* C24: a second compute_layout on the unchanged tree ends with the boxes and
\* the stored offsets of the first: the solve of the second call gives the
\* boxes again, and the two passes of the second call, run on what its
\* link-back stores, give the offsets the first call left on the nodes, with
\* nothing of the first call's fixed and translate offsets added again.
C24_SecondCallGivesTheSame ==
    [][/\ (SecondCall /\ lPc = "built" /\ lPc' = "solved") => stLayout' = stLayout
       /\ (SecondCall /\ lPc = "solved" /\ lPc' = "linked") =>
             /\ origin' = origin
             /\ BothPasses(layout_result') = layout_result]_vars

\* A second call is about to link its results back while the nodes still
\* hold the first call's: a node that is fixed and translated has an offset
\* on both axes.
C24_Witness ==
    /\ SecondCall /\ lPc = "solved"
    /\ \E n \in LayoutNodes \ {Root} :
          /\ IsFixed(n) /\ lStyle[n].transform.set
          /\ lStyle[lParent[n]].transform.set
          /\ layout_result[n].offset.x # 0
          /\ layout_result[n].offset.y # 0

-----------------------------------------------------------------------------
(* C25 *)

\* The edges a LayoutResult gives bounds for.
Edges == {"CONTENT", "PADDING", "BORDER", "MARGIN"}

\* The bounds of node n immediately after link-back, when its stored offset
\* is (0, 0).
LinkedBounds(n, edge) ==
    LET box == get_box(stLayout[n], stStyle[n], edge)
    IN to_int_skia_rect(box.pos.x, box.pos.y, box.size.x, box.size.y)

\* C25: after the fixed-position pass and after the transform pass the
\* integer width and height of every node's content, padding, border and
\* margin bounds are those it had immediately after link-back, whatever
\* offset the passes stored, fractional offsets of percentage translates
\* included.
C25_PassesKeepTheSizes ==
    lPc \in {"fixed", "done"} =>
        \A n \in LayoutNodes : \A edge \in Edges :
            LET bounds == get_bounds(n, edge)
                linked == LinkedBounds(n, edge)
            IN /\ bounds.right - bounds.left = linked.right - linked.left
               /\ bounds.bottom - bounds.top = linked.bottom - linked.top

\* The passes keep the sizes as long as every stored offset is a whole
\* number of pixels.
C25_WholeOffsetsKeepTheSizes ==
    lPc \in {"fixed", "done"} =>
        \A n \in LayoutNodes : \A edge \in Edges :
            (\A ax \in Axes : layout_result[n].offset[ax] % PxUnits = 0) =>
                LET bounds == get_bounds(n, edge)
                    linked == LinkedBounds(n, edge)
                IN /\ bounds.right - bounds.left = linked.right - linked.left
                   /\ bounds.bottom - bounds.top = linked.bottom - linked.top

-----------------------------------------------------------------------------
(* C26 *)

\* C26: in the list _split_line_in_runs returns no two adjacent runs have the
\* same typeface, for every mix of characters the primary font, a fallback
\* font or no font has a glyph for.
C26_AdjacentRunsDiffer ==
    rPc = "done" =>
        \A i \in 1..(Len(rLineRuns) - 1) : rLineRuns[i].font # rLineRuns[i + 1].font

\* Adjacent runs differ when every character of the line has a glyph in the
\* primary or in the fallback font.
C26_AdjacentRunsDifferWhenAllHaveAFont ==
    (rPc = "done" /\ \A i \in 1..Len(line_text) : line_text[i] # "?") =>
        \A i \in 1..(Len(rLineRuns) - 1) : rLineRuns[i].font # rLineRuns[i + 1].font

-----------------------------------------------------------------------------
(* C27 *)

\* The texts of the runs, in order
RunTexts(runs) == [i \in 1..Len(runs) |-> runs[i].text]

\* C27: the texts of the runs _split_line_in_runs returns, concatenated in
\* order, are the line text it was given; and while the loop runs, the runs
\* so far followed by current_run_text are the characters consumed.
C27_RunsConcatenateToTheLine ==
    /\ Flatten(RunTexts(rLineRuns)) \o (IF rPc = "loop" THEN rCurrentRunText ELSE <<>>)
          = SubSeq(line_text, 1, rIdx)
    /\ rPc = "done" => rIdx = Len(line_text)

\* The runs of a line of three characters were returned: the first has no
\* font and takes the primary one, the second is in the fallback font only,
\* the third again has no font; there are three runs.
C27_Witness ==
    /\ rPc = "done"
    /\ line_text = <<"?", "x", "?">>
    /\ Len(rLineRuns) = 3
    /\ rLineRuns[2].font = "fallback"

-----------------------------------------------------------------------------
(* C28 *)

\* The positions in the line text after which a part of parts ends.
RECURSIVE Ends(_)
Ends(parts) ==
    IF parts = <<>> THEN {}
    ELSE {Len(Flatten(parts))} \cup Ends(SubSeq(parts, 1, Len(parts) - 1))

\* C28: every grapheme cluster of the line lies within one run of the list
\* _split_line_in_runs returns: a run ends only where a cluster ends.
C28_ClustersAreNotSplit ==
    rPc = "done" => Ends(RunTexts(rLineRuns)) \subseteq Ends(rClusters)

\* Clusters are not split in a line of clusters of one code point each.
C28_SingleCodePointClustersAreNotSplit ==
    (rPc = "done" /\ \A i \in 1..Len(rClusters) : Len(rClusters[i]) = 1) =>
        Ends(RunTexts(rLineRuns)) \subseteq Ends(rClusters)

-----------------------------------------------------------------------------
(* C23 *)

\* The text node after the first preparation of the tree with render_props:
\* no forced size, no wrap width, the dependencies made from render_props,
\* and every cached value computed from the unwrapped text.
FirstPreparation(render_props) ==
    LET lines == shape(tText, NoMaxWidth)
    IN [render |-> [render_props |-> render_props,
                    absolute_position |-> [set |-> TRUE, x |-> 0, y |-> 0],
                    font_manager |-> [set |-> TRUE, font_smoothing |-> render_props.font_smoothing],
                    text_shaper |-> [set |-> TRUE]],
        forced_width |-> NoMaxWidth,
        text_wrap_width |-> NoMaxWidth,
        cache |-> [names |-> CachedNames, shaped_lines |-> lines,
                   intrinsic |-> [width |-> MaxLineWidth(lines), height |-> Len(lines)]]]

-----------------------------------------------------------------------------
(* Sharing a row's width among its flexible children *)

\* margin_bounds.width() of a flexible child, in whole pixels (margin_bounds
\* is rounded to integers): an empty child and one 25 wide
ChildWidths == {0, 25}

\* compute_min_width() of a flexible child, in hundredths of a pixel: 0, 4.5
\* (a row with a fractional gap or padding) and 30 pixels
ChildMinWidths == {0, 450, Px(30)}

\* available_for_children once the gaps and the fixed children are taken
\* off, in hundredths of a pixel: 0, 10.5 and 50 pixels
RowAvailableWidths == {0, 1050, Px(50)}

\* Python's round() of a value in hundredths: to the nearest integer, a half
\* to the even one.
PyRound(hundredths) ==
    LET q == hundredths \div PxUnits
        r == hundredths % PxUnits
    IN IF 2 * r < PxUnits THEN q
       ELSE IF 2 * r > PxUnits THEN q + 1
       ELSE IF q % 2 = 0 THEN q ELSE q + 1

\* basis = float(child.margin_bounds.width()); if basis <= 0: basis = 1.0
Basis(width) == IF width <= 0 THEN 1 ELSE width

RECURSIVE SumOver(_, _)
\* sum(f[c] for c in nodes)
SumOver(nodes, f) ==
    IF nodes = {} THEN 0
    ELSE LET c == CHOOSE x \in nodes : TRUE
         IN f[c] + SumOver(nodes \ {c}, f)

\* total_basis = sum(bases[c] for c in remaining)
total_basis(rem, b) == SumOver(rem, b)

\* int(math.floor(raw_allocs[c])), raw_allocs[c] being
\* (bases[c] / total_basis) * remaining_available
FloorAllocations(rem, b, available) ==
    [c \in rem |-> (b[c] * available) \div total_basis(rem, b)]

\* raw_allocs[c] - math.floor(raw_allocs[c]), in units of 1 / total_basis
Residual(rem, b, available, c) == (b[c] * available) % total_basis(rem, b)

\* residuals[:leftover]: the leftover children of largest residual.  The
\* sort is over a set of nodes, so children of equal residual come in any
\* order.
LeftoverChoices(rem, b, available) ==
    LET leftover == available - SumOver(rem, FloorAllocations(rem, b, available))
        k == Min(Max(leftover, 0), Cardinality(rem))
    IN {S \in SUBSET rem :
          /\ Cardinality(S) = k
          /\ \A c \in S, d \in rem \ S :
                Residual(rem, b, available, c) >= Residual(rem, b, available, d)}

\* allocations after the leftover pixels are handed out
Allocations(rem, b, available, plus_one) ==
    [c \in rem |-> FloorAllocations(rem, b, available)[c] + IF c \in plus_one THEN 1 ELSE 0]

\* A loop that never finds a child below its minimum
to_fix_nothing(rem, allocations, m) == {}

\* to_fix: the children whose allocation is below their minimum width
to_fix(rem, allocations, m) == {c \in rem : allocations[c] < m[c]}

\* _set_width_constraint(width) is called on child c.
GiveConstraint(given, nodes, width) ==
    [c \in DOMAIN given |-> IF c \in nodes THEN Append(given[c], width[c]) ELSE given[c]]

\* A row of up to MaxRowChildren flexible children is about to share out
\* its width.
InitRow ==
    /\ \E n \in 0..MaxRowChildren :
          /\ child_widths \in [1..n -> ChildWidths]
          /\ child_min_widths \in [1..n -> ChildMinWidths]
          /\ constraints = [c \in 1..n |-> <<>>]
    /\ available_for_children \in RowAvailableWidths
    /\ bases = <<>>
    /\ mins = <<>>
    /\ remaining = {}
    /\ remaining_available = 0
    /\ aPc = "start"
    /\ parent = [n \in StyleNodes |-> n - 1]
    /\ StyleIdle
    /\ WrapIdle
    /\ LayoutIdle
    /\ ResolverIdle
    /\ BuilderIdle
    /\ ElementIdle
    /\ TextNodeIdle
    /\ RunsIdle

RowFrame ==
    UNCHANGED <<styleVars, wrapVars, layoutVars, resolverVars, builderVars, elementVars,
                textNodeVars, runVars>>

\* Lines 35-47: return when no child is flexible, else the bases, the
\* minimum widths and the set of children still to be served.
EnterLoop ==
    /\ aPc = "start"
    /\ IF Len(child_widths) = 0
       THEN /\ aPc' = "done"
            /\ UNCHANGED <<bases, mins, remaining, remaining_available>>
       ELSE /\ bases' = [c \in DOMAIN child_widths |-> Basis(child_widths[c])]
            /\ mins' = [c \in DOMAIN child_min_widths |-> PyRound(child_min_widths[c])]
            /\ remaining' = DOMAIN child_widths
            /\ remaining_available' = available_for_children \div PxUnits
            /\ aPc' = "loop"
    /\ UNCHANGED <<child_widths, child_min_widths, available_for_children, constraints>>
    /\ RowFrame

\* One pass of "while remaining": the children below their minimum are
\* given it and leave, or every child left is given its allocation and the
\* loop ends.
AllocateWidths ==
    /\ aPc = "loop"
    /\ \E plus_one \in LeftoverChoices(remaining, bases, remaining_available) :
          LET allocations == Allocations(remaining, bases, remaining_available, plus_one)
              fixed == to_fix(remaining, allocations, mins)
          IN IF fixed = {}
             THEN /\ constraints' = GiveConstraint(constraints, remaining, allocations)
                  /\ aPc' = "done"
                  /\ UNCHANGED <<remaining, remaining_available>>
             ELSE /\ constraints' = GiveConstraint(constraints, fixed, mins)
                  /\ remaining_available' = Max(remaining_available - SumOver(fixed, mins), 0)
                  /\ remaining' = remaining \ fixed
                  /\ aPc' = IF remaining \ fixed = {} THEN "done" ELSE "loop"
    /\ UNCHANGED <<child_widths, child_min_widths, available_for_children, bases, mins>>
    /\ RowFrame

NextRow == EnterLoop \/ AllocateWidths

SpecRow == InitRow /\ [][NextRow]_vars

\* _set_width_constraint runs to its end once called.
FairSpecRow == SpecRow /\ WF_vars(NextRow)

(* ---------------------------------------------------------------- *)
(* C29: place() after earlier positioning calls                      *)
(* ---------------------------------------------------------------- *)

\* What place() with the arguments of the last call leaves on a builder
\* nothing was called on before.
PlacedOnAFreshBuilder ==
    place(ElementStyle, eCall.args[1], eCall.args[2], eCall.args[3].v, eCall.args[4].v).style

PlaceReturned == eCall.op = "place" /\ eCall.raised = "none"

\* C29: after place(h, v, x_offset, y_offset), whatever relative_position,
\* absolute_position, fixed_position, translate and place calls came before,
\* the stored position and transform are those the same place call leaves
\* on a fresh builder.
C29_PlaceAsOnAFreshBuilder ==
    PlaceReturned =>
        /\ eStyle.position = PlacedOnAFreshBuilder.position
        /\ eStyle.transform = PlacedOnAFreshBuilder.transform

\* The position alone is always that of a fresh builder: no inset of an
\* earlier call survives place().
C29_PositionAsOnAFreshBuilder ==
    PlaceReturned => eStyle.position = PlacedOnAFreshBuilder.position

\* The transform is that of a fresh builder whenever this place() call
\* computes a translate of its own.
C29_TransformAsOnAFreshBuilderWhenPlaceTranslates ==
    PlaceReturned /\ PlacedOnAFreshBuilder.transform.set =>
        eStyle.transform = PlacedOnAFreshBuilder.transform

\* place() computing no translate has returned on a builder that still
\* carries the translate of an earlier call.
C29_EarlierTranslateSurvives ==
    /\ PlaceReturned
    /\ ~PlacedOnAFreshBuilder.transform.set
    /\ eStyle.transform.set


(* ---------------------------------------------------------------- *)
(* C30: the width-allocation loop of RowNode._set_width_constraint   *)
(* ---------------------------------------------------------------- *)

\* While the loop runs there is a child left and the sum of the bases that
\* the allocations are divided by is positive.
LoopDividesByAPositiveSum ==
    aPc = "loop" => remaining # {} /\ total_basis(remaining, bases) > 0

\* On exit every flexible child has been given one width constraint, and
\* it is no less than the child's minimum width.
EveryChildConstrainedOnce ==
    aPc = "done" =>
        \A c \in DOMAIN constraints :
            /\ Len(constraints[c]) = 1
            /\ constraints[c][1] >= PyRound(child_min_widths[c])

====
